---- MODULE Spec2Model ----
(***************************************************************************)
(* Model of the Fusion auction tracker (src/src/fusion/                    *)
(* FusionAuctionTracker.ts): the registry activeAuctions, the interval     *)
(* timers created by startPolling, the poll callbacks suspended at their   *)
(* awaits, and the emit calls made by each step.                           *)
(*                                                                         *)
(* Time is counted in milliseconds and advances in steps of the poll       *)
(* interval; when it advances, every live interval timer fires.            *)
(*                                                                         *)
(* The event bus the tracker extends (src/unnamed/part_002, EventEmitter)  *)
(* is modelled on its own: the listener sets of each topic and the         *)
(* listeners one emit call invokes.                                        *)
(*                                                                         *)
(* The Wormhole bridge service (src/src/bridge/WormholeBridge.ts) is       *)
(* modelled by its registry activeTransfers, the calls of transferTokens   *)
(* and getTransferStatus, and the retry loop of getSignedVAA, one guardian *)
(* request or one inter-round delay per step.                              *)
(*                                                                         *)
(* Pure functions (parseVAA, the status mapping of checkAuctionStatus) are *)
(* applied to arguments drawn from bounded sets: `args` holds the          *)
(* arguments and `produced` what the function produced.                    *)
(***************************************************************************)
EXTENDS Integers, Sequences, FiniteSets, TLC

\* ------------------------------------------------------------------ bounds

\* Number of 5-second steps the clock of Spec may advance.
MaxTicks == 2

\* Number of trackOrder calls of Spec (each creates one interval timer).
MaxTimers == 2

\* Number of clock steps of the scripted scenarios (SpecScenario).
ScenarioTicks == 7

\* Clock steps and trackOrder calls of the two-order specification (SpecAll).
AllTicks == 1

AllTimers == 2

\* Clock steps of the specification with fair timers (SpecLive).
LiveTicks == 3

\* Clock steps of the specification with two resolver addresses
\* (SpecResolver).
ResolverTicks == 2

\* Number of on() calls of the event bus specification (SpecBus).
MaxSubscriptions == 4

\* ------------------------------------------------------- program constants

\* setInterval(..., 5000)
PollIntervalMs == 5000

Orders == {"o1", "o2"}

\* The timeouts a registration may ask for, in twelfths of a minute (5000 ms,
\* one poll interval): a poll one interval after registration is within the
\* timeout, a poll two intervals after registration is past it.
TimeoutTwelfths == {1}

\* enum AuctionState
PENDING == "pending"
ANNOUNCED == "announced"
IN_AUCTION == "in_auction"
RESOLVER_SELECTED == "resolver_selected"
ESCROW_DEPOSITED == "escrow_deposited"
SECRET_REVEALING == "secret_revealing"
EXECUTING == "executing"
COMPLETED == "completed"
FAILED == "failed"
EXPIRED == "expired"
REFUNDING == "refunding"
REFUNDED == "refunded"

AuctionState ==
  { PENDING, ANNOUNCED, IN_AUCTION, RESOLVER_SELECTED, ESCROW_DEPOSITED,
    SECRET_REVEALING, EXECUTING, COMPLETED, FAILED, EXPIRED, REFUNDING,
    REFUNDED }

\* The states at which the poll callback stops polling.
TerminalStates == { COMPLETED, FAILED, EXPIRED, REFUNDED }

\* What one call of fusionClient.getOrderStatus can produce: a rejection
\* (ok = FALSE) or a record {status, resolver?, fills?}.  resolver = <<>> is
\* an absent resolver, fills is the number of fill records.
Resolvers == {"r1"}

Response(ok, status, resolver, fills) ==
  [ok |-> ok, status |-> status, resolver |-> resolver, fills |-> fills]

QueryFailure == Response(FALSE, "error", <<>>, 0)

Responses ==
  {QueryFailure}
    \cup { Response(TRUE, s, <<>>, 0) :
             s \in {"pending", "in_auction", "completed", "failed", "expired",
                    "unknown"} }
    \cup { Response(TRUE, "resolver_selected", r, 0) :
             r \in {<<>>} \cup { <<a>> : a \in Resolvers } }
    \cup { Response(TRUE, "executing", <<>>, f) : f \in {0, 1} }

\* ------------------------------------------------------------------- state

VARIABLES
  now,            \* Date.now()
  activeAuctions, \* the registry: orderHash -> auction record
  nextTimer,      \* the id the next setInterval returns
  timerOrder,     \* timer id -> the orderHash its callback closes over
  liveTimers,     \* timers not cleared by clearInterval
  awaiting,       \* timer id -> callbacks awaiting getOrderStatus
  resumed,        \* timer id -> callbacks whose checkAuctionStatus returned
  script,         \* scripted answers of the status service (scenarios)
  out,            \* the emit calls of the last step, in order
  last,           \* the last operation and the orders it concerned
  lastUpdate,     \* orderHash -> state of the latest auction_update
  stopped,        \* orderHash -> stopTracking was called since registration
  timedOut,       \* orderHash -> handleTimeout forced Expired
  terminalDone,   \* orderHash -> a callback cancelled and removed it as terminal
  events,         \* EventEmitter.events: topic -> its listeners, in Set order
  subscriptions,  \* number of on() calls made
  subscribedAt,   \* topic -> listener -> the on() call that subscribed it
  lastEmit,       \* the last emit call: topic, listeners invoked, result
  onceWrappers,   \* the closures once() created: topic, listener, calls made
  activeTransfers, \* WormholeBridgeService.activeTransfers: key -> transfer
  lastTransfer,   \* the outcome of the last transferTokens call
  lastStatus,     \* the outcome of the last getTransferStatus call
  vaaCall,        \* getSignedVAA: "idle", "running", "delaying", "returned", "thrown"
  caller,         \* who called getSignedVAA: "direct" or a transfer key
  attempt,        \* getSignedVAA: the loop variable attempt
  hostIndex,      \* getSignedVAA: position of host in GUARDIAN_RPC_HOSTS
  requests,       \* fetch calls made by the current getSignedVAA call
  sent,           \* host position -> fetch calls made to it by the current call
  delays,         \* inter-round delays waited by the current call
  lastOutcome,    \* the outcome of the last fetch
  vaaValue,       \* what getSignedVAA returned
  bridge,         \* the bridgeTokens call: its phase, key and steps so far
  args,           \* the arguments of a pure function
  produced,       \* what the function produced for them
  cache,          \* PriceOracleService.cache: key -> price and timestamp
  priceNow,       \* Date.now() as the price oracle reads it
  lastPrice,      \* the last getPrice call: symbol, price, requests made
  fetched         \* key -> the last non-zero price a request brought back

\* The state of the auction tracker.
trackerVars ==
  << now, activeAuctions, nextTimer, timerOrder, liveTimers,
     awaiting, resumed, script, out, last, lastUpdate, stopped, timedOut,
     terminalDone >>

\* The state of the event bus.
busVars == << events, subscriptions, subscribedAt, lastEmit, onceWrappers >>

\* The state of the bridge service.
bridgeVars ==
  << activeTransfers, lastTransfer, lastStatus, vaaCall, caller, attempt,
     hostIndex, requests, sent, delays, lastOutcome, vaaValue, bridge >>

\* The arguments and the result of a pure function.
pureVars == << args, produced >>

\* The state of the price oracle.
oracleVars == << cache, priceNow, lastPrice, fetched >>

\* What a step of the auction tracker leaves alone.
outsideTracker == << busVars, bridgeVars, pureVars, oracleVars >>

\* What a step of the event bus leaves alone.
outsideBus == << trackerVars, bridgeVars, pureVars, oracleVars >>

\* What a step of the bridge service leaves alone.
outsideBridge == << trackerVars, busVars, pureVars, oracleVars >>

\* What the application of a pure function leaves alone.
outsidePure == << trackerVars, busVars, bridgeVars, oracleVars >>

\* What a step of the price oracle leaves alone.
outsideOracle == << trackerVars, busVars, bridgeVars, pureVars >>

vars == << trackerVars, busVars, bridgeVars, pureVars, oracleVars >>

history == << lastUpdate, stopped, timedOut, terminalDone >>

NoState == "none"
NoOrder == "none"

\* The ids setInterval can return; no specification creates that many timers.
TimerIds == 1 .. 8

Timers == 1 .. (nextTimer - 1)

\* -------------------------------------------------------------- event bus

\* One call of emit(topic, payload).
Emit(topic, payload) == [topic |-> topic, payload |-> payload]

\* emitAuctionEvent with a slip: the emit on the state's topic is forgotten.
emitAuctionEventGenericOnly(orderHash, state, data) ==
  << Emit("auction_update",
          [orderHash |-> orderHash, state |-> state, timestamp |-> now,
           data |-> data]) >>

\* emitAuctionEvent: the same event on auction_update and on the state's topic.
emitAuctionEvent(orderHash, state, data) ==
  LET event == [orderHash |-> orderHash, state |-> state, timestamp |-> now,
                data |-> data]
  IN  << Emit("auction_update", event), Emit(state, event) >>

RefundNeeded(orderHash) == Emit("refund_needed", [orderHash |-> orderHash])

\* ----------------------------------------------------------- registry ops

Has(reg, orderHash) == orderHash \in DOMAIN reg

Put(reg, orderHash, auction) ==
  [h \in DOMAIN reg \cup {orderHash} |->
     IF h = orderHash THEN auction ELSE reg[h]]

Delete(reg, orderHash) == [h \in DOMAIN reg \ {orderHash} |-> reg[h]]

EmptyRegistry == [h \in {} |-> 0]

\* getAuctionState
getAuctionState(orderHash) ==
  IF Has(activeAuctions, orderHash) THEN activeAuctions[orderHash].state
  ELSE NoState

\* getActiveAuctions
getActiveAuctions == [h \in DOMAIN activeAuctions |-> activeAuctions[h].state]

\* ----------------------------------------------------------- bookkeeping

\* The auction_update emits of a step that carry orderHash h.
UpdatesIn(emits, h) ==
  SelectSeq(emits,
            LAMBDA e : e.topic = "auction_update" /\ e.payload.orderHash = h)

RefundsIn(emits, h) ==
  SelectSeq(emits,
            LAMBDA e : e.topic = "refund_needed" /\ e.payload.orderHash = h)

\* The observations after a step whose emit calls were `emits`; `fresh` is
\* the set of orders the step registered (their observations start over).
Observe(emits, fresh) ==
  /\ out' = emits
  /\ lastUpdate' =
       [h \in Orders |->
          LET ups == UpdatesIn(emits, h)
          IN  IF ups # <<>> THEN ups[Len(ups)].payload.state
              ELSE IF h \in fresh THEN NoState ELSE lastUpdate[h]]

\* ------------------------------------------------------------ registration

\* timeoutMinutes * 60 * 1000, for a timeoutMinutes of twelfths/12 minutes
\* (a multiple of the poll interval).
TimeoutMs(twelfths) == (twelfths * 60 * 1000) \div 12

\* The entry trackOrder puts in the registry.
NewAuction(twelfths, timer) ==
  [state |-> PENDING, resolver |-> <<>>, startTime |-> now,
   timeoutMs |-> TimeoutMs(twelfths), pollInterval |-> timer]

\* trackOrder with a slip: the Announced event is not emitted.
trackOrderSilent(orderHash, twelfths) ==
  /\ activeAuctions' =
       Put(activeAuctions, orderHash, NewAuction(twelfths, nextTimer))
  /\ nextTimer' = nextTimer + 1
  /\ timerOrder' = [timerOrder EXCEPT ![nextTimer] = orderHash]
  /\ liveTimers' = liveTimers \cup {nextTimer}
  /\ Observe(<<>>, {orderHash})
  /\ last' = [op |-> "trackOrder", orders |-> {orderHash}]
  /\ stopped' = [stopped EXCEPT ![orderHash] = FALSE]
  /\ timedOut' = [timedOut EXCEPT ![orderHash] = FALSE]
  /\ terminalDone' = [terminalDone EXCEPT ![orderHash] = FALSE]
  /\ UNCHANGED << now, awaiting, resumed >>

\* trackOrder(orderHash, timeoutMinutes): the registry entry (replacing any
\* entry of the same hash), the Announced event, then startPolling, which
\* creates a new interval timer and records it in the entry.  Nothing awaits
\* before the timer is recorded, so the call is one step.
trackOrder(orderHash, twelfths) ==
  /\ activeAuctions' =
       Put(activeAuctions, orderHash, NewAuction(twelfths, nextTimer))
  /\ nextTimer' = nextTimer + 1
  /\ timerOrder' = [timerOrder EXCEPT ![nextTimer] = orderHash]
  /\ liveTimers' = liveTimers \cup {nextTimer}
  /\ Observe(emitAuctionEvent(orderHash, ANNOUNCED, <<>>), {orderHash})
  /\ last' = [op |-> "trackOrder", orders |-> {orderHash}]
  /\ stopped' = [stopped EXCEPT ![orderHash] = FALSE]
  /\ timedOut' = [timedOut EXCEPT ![orderHash] = FALSE]
  /\ terminalDone' = [terminalDone EXCEPT ![orderHash] = FALSE]
  /\ UNCHANGED << now, awaiting, resumed >>

\* ------------------------------------------------------------------ clock

\* The clock advances by one poll interval and every live timer fires: its
\* callback calls checkAuctionStatus, which issues getOrderStatus(orderHash)
\* and awaits the answer.  A timer callback is a task of the event loop: it
\* starts only when no resumed callback (a microtask) is still pending.
Tick ==
  /\ \A t \in TimerIds : resumed[t] = 0
  /\ now' = now + PollIntervalMs
  /\ awaiting' = [t \in TimerIds |->
                    IF t \in liveTimers THEN awaiting[t] + 1 ELSE awaiting[t]]
  /\ out' = <<>>
  /\ last' = [op |-> "getOrderStatus",
              orders |-> { timerOrder[t] : t \in liveTimers }]
  /\ UNCHANGED << activeAuctions, nextTimer, timerOrder, liveTimers, resumed,
                  history >>

\* --------------------------------------------------------------- polling

\* The switch with a slip: the fill records of an executing order are not
\* looked at.
MapStatusIgnoresFills(status, current) ==
  CASE status.status = "pending" -> ANNOUNCED
    [] status.status = "in_auction" -> IN_AUCTION
    [] status.status = "resolver_selected" -> RESOLVER_SELECTED
    [] status.status = "executing" -> EXECUTING
    [] status.status = "completed" -> COMPLETED
    [] status.status = "failed" -> FAILED
    [] status.status = "expired" -> EXPIRED
    [] OTHER -> current

\* The switch of checkAuctionStatus: the state an answer maps to.
MapStatus(status, current) ==
  CASE status.status = "pending" -> ANNOUNCED
    [] status.status = "in_auction" -> IN_AUCTION
    [] status.status = "resolver_selected" -> RESOLVER_SELECTED
    [] status.status = "executing" ->
         IF status.fills > 0 THEN ESCROW_DEPOSITED ELSE EXECUTING
    [] status.status = "completed" -> COMPLETED
    [] status.status = "failed" -> FAILED
    [] status.status = "expired" -> EXPIRED
    [] OTHER -> current

\* case 'resolver_selected': the resolver record written when the answer
\* names a resolver.
ResolverAfter(status, auction) ==
  IF status.status = "resolver_selected" /\ status.resolver # <<>>
  THEN << [address |-> status.resolver[1], bidAmount |-> "0",
           reputation |-> 0, estimatedTime |-> 300] >>
  ELSE auction.resolver

\* checkAuctionStatus with a slip: the catch marks the order Failed.
CheckedRegistryFailsOnError(reg, orderHash, status) ==
  IF ~Has(reg, orderHash) THEN reg
  ELSE IF ~status.ok
  THEN Put(reg, orderHash, [reg[orderHash] EXCEPT !.state = FAILED])
  ELSE LET auction == reg[orderHash]
           newState == MapStatus(status, auction.state)
       IN  Put(reg, orderHash,
               [auction EXCEPT !.resolver = ResolverAfter(status, auction),
                               !.state = newState])

\* checkAuctionStatus with a slip: an answer restarts the timeout clock.
CheckedRegistryRefreshesClock(reg, orderHash, status) ==
  IF ~status.ok \/ ~Has(reg, orderHash) THEN reg
  ELSE LET auction == reg[orderHash]
           newState == MapStatus(status, auction.state)
       IN  Put(reg, orderHash,
               [auction EXCEPT !.resolver = ResolverAfter(status, auction),
                               !.state = newState,
                               !.startTime = now])

\* checkAuctionStatus after its await: the registry it leaves.
CheckedRegistry(reg, orderHash, status) ==
  IF ~status.ok \/ ~Has(reg, orderHash) THEN reg
  ELSE LET auction == reg[orderHash]
           newState == MapStatus(status, auction.state)
       IN  Put(reg, orderHash,
               [auction EXCEPT !.resolver = ResolverAfter(status, auction),
                               !.state = newState])

\* The emit calls with a slip: the event is emitted whether or not the
\* state changed.
CheckedEmitsUnconditional(reg, orderHash, status) ==
  IF ~status.ok \/ ~Has(reg, orderHash) THEN <<>>
  ELSE LET auction == reg[orderHash]
           newState == MapStatus(status, auction.state)
       IN  emitAuctionEvent(orderHash, newState,
             << [status |-> status,
                 resolver |-> ResolverAfter(status, auction)] >>)

\* checkAuctionStatus after its await: its emit calls.
CheckedEmits(reg, orderHash, status) ==
  IF ~status.ok \/ ~Has(reg, orderHash) THEN <<>>
  ELSE LET auction == reg[orderHash]
           newState == MapStatus(status, auction.state)
       IN  IF newState # auction.state
           THEN emitAuctionEvent(orderHash, newState,
                  << [status |-> status,
                      resolver |-> ResolverAfter(status, auction)] >>)
           ELSE <<>>

\* getOrderStatus settles with `status` and checkAuctionStatus runs to its
\* end; the callback that awaited it is resumed later.
checkAuctionStatus(t, status) ==
  /\ awaiting[t] > 0
  /\ awaiting' = [awaiting EXCEPT ![t] = @ - 1]
  /\ resumed' = [resumed EXCEPT ![t] = @ + 1]
  /\ activeAuctions' = CheckedRegistry(activeAuctions, timerOrder[t], status)
  /\ Observe(CheckedEmits(activeAuctions, timerOrder[t], status), {})
  /\ last' = [op |-> "checkAuctionStatus", orders |-> {timerOrder[t]},
              ok |-> status.ok]
  /\ UNCHANGED << now, nextTimer, timerOrder, liveTimers, stopped, timedOut,
                  terminalDone >>

\* handleTimeout with a slip: the order goes to Refunding instead of Expired.
handleTimeoutRegistryRefunding(reg, orderHash) ==
  IF ~Has(reg, orderHash) THEN reg
  ELSE Put(reg, orderHash, [reg[orderHash] EXCEPT !.state = REFUNDING])

\* handleTimeout: the registry it leaves.
handleTimeoutRegistry(reg, orderHash) ==
  IF ~Has(reg, orderHash) THEN reg
  ELSE Put(reg, orderHash, [reg[orderHash] EXCEPT !.state = EXPIRED])

\* handleTimeout with a slip: the refund_needed emit is forgotten.
handleTimeoutEmitsNoRefund(reg, orderHash) ==
  IF ~Has(reg, orderHash) THEN <<>>
  ELSE emitAuctionEvent(orderHash, EXPIRED, <<>>)

\* handleTimeout: its emit calls.
handleTimeoutEmits(reg, orderHash) ==
  IF ~Has(reg, orderHash) THEN <<>>
  ELSE emitAuctionEvent(orderHash, EXPIRED, <<>>)
         \o << RefundNeeded(orderHash) >>

\* elapsed > currentAuction.timeoutMs
TimeoutReached(auction) == now - auction.startTime > auction.timeoutMs

\* The terminal check of the poll callback: the registry it leaves.
TerminalChecked(reg, orderHash) ==
  IF Has(reg, orderHash) /\ reg[orderHash].state \in TerminalStates
  THEN Delete(reg, orderHash)
  ELSE reg

\* The interval callback of timer t after `await checkAuctionStatus`: the
\* registry lookup, the terminal check and the timeout check.  It clears its
\* own timer t, the one it closes over.
pollCallback(t) ==
  LET orderHash == timerOrder[t]
      present == Has(activeAuctions, orderHash)
      currentAuction == activeAuctions[orderHash]
      terminal == present /\ currentAuction.state \in TerminalStates
      timeout == present /\ TimeoutReached(currentAuction)
      checked == TerminalChecked(activeAuctions, orderHash)
      cleared == IF ~present \/ terminal \/ timeout THEN {t} ELSE {}
  IN  /\ resumed[t] > 0
      /\ resumed' = [resumed EXCEPT ![t] = @ - 1]
      /\ activeAuctions' =
           IF timeout THEN handleTimeoutRegistry(checked, orderHash)
           ELSE checked
      /\ Observe(IF timeout THEN handleTimeoutEmits(checked, orderHash)
                 ELSE <<>>, {})
      /\ liveTimers' = liveTimers \ cleared
      /\ timedOut' =
           [timedOut EXCEPT
              ![orderHash] = @ \/ (timeout /\ Has(checked, orderHash))]
      /\ terminalDone' = [terminalDone EXCEPT ![orderHash] = @ \/ terminal]
      /\ last' = [op |-> "pollCallback", orders |-> {orderHash}]
      /\ UNCHANGED << now, nextTimer, timerOrder, awaiting, stopped >>

\* ------------------------------------------------------------------ stops

\* The timers recorded in the registry entries of `hashes`.
RecordedTimers(reg, hashes) ==
  { reg[h].pollInterval : h \in DOMAIN reg \cap hashes }

\* stopTracking with a slip: the timer is cleared but the entry is not deleted.
stopTrackingKeepsEntry(orderHash) ==
  /\ liveTimers' = liveTimers \ RecordedTimers(activeAuctions, {orderHash})
  /\ stopped' = [stopped EXCEPT ![orderHash] = TRUE]
  /\ out' = <<>>
  /\ last' = [op |-> "stopTracking", orders |-> {orderHash}]
  /\ UNCHANGED << now, activeAuctions, nextTimer, timerOrder, awaiting,
                  resumed, lastUpdate, timedOut, terminalDone >>

\* stopTracking(orderHash)
stopTracking(orderHash) ==
  /\ liveTimers' = liveTimers \ RecordedTimers(activeAuctions, {orderHash})
  /\ activeAuctions' = Delete(activeAuctions, orderHash)
  /\ stopped' = [stopped EXCEPT ![orderHash] = TRUE]
  /\ out' = <<>>
  /\ last' = [op |-> "stopTracking", orders |-> {orderHash}]
  /\ UNCHANGED << now, nextTimer, timerOrder, awaiting, resumed, lastUpdate,
                  timedOut, terminalDone >>

\* stopAll()
stopAll ==
  /\ liveTimers' = liveTimers \ RecordedTimers(activeAuctions, Orders)
  /\ activeAuctions' = EmptyRegistry
  /\ out' = <<>>
  /\ last' = [op |-> "stopAll", orders |-> {}]
  /\ UNCHANGED << now, nextTimer, timerOrder, awaiting, resumed, history >>

\* --------------------------------------------------------------- event bus

Topics == {"a", "b"}

Listeners == {"f", "g", "h"}

NoEmit == [topic |-> "none", invoked |-> <<>>, throwing |-> {}, result |-> "none"]

\* The elements of a sequence.
Range(seq) == { seq[i] : i \in 1 .. Len(seq) }

\* Set.add with a slip: an element already in the set is moved to the end.
SetAddMovesLast(listeners, listener) ==
  Append(SelectSeq(listeners, LAMBDA l : l # listener), listener)

\* Set.add: a new element goes last, an element already in the set keeps
\* its place.
SetAdd(listeners, listener) ==
  IF listener \in Range(listeners) THEN listeners
  ELSE Append(listeners, listener)

\* Set.delete
SetDelete(listeners, listener) ==
  SelectSeq(listeners, LAMBDA l : l # listener)

\* events.get(event), an absent key read as no listeners.
ListenersOf(event) == IF event \in DOMAIN events THEN events[event] ELSE <<>>

\* on(event, listener)
BusOn(event, listener) ==
  /\ events' = Put(events, event, SetAdd(ListenersOf(event), listener))
  /\ subscriptions' = subscriptions + 1
  /\ subscribedAt' =
       IF listener \in Range(ListenersOf(event)) THEN subscribedAt
       ELSE [subscribedAt EXCEPT ![event][listener] = subscriptions + 1]
  /\ lastEmit' = NoEmit
  /\ UNCHANGED << onceWrappers, outsideBus >>

\* The names of the closures once() creates, by the number of the on() call
\* that subscribes them.
OnceWrapperNames == << "w1", "w2", "w3", "w4", "w5", "w6" >>

\* once(event, listener): a new closure that calls the listener and then
\* removes itself, subscribed with on().
BusOnce(event, listener) ==
  LET onceWrapper == OnceWrapperNames[subscriptions + 1]
  IN  /\ events' = Put(events, event, SetAdd(ListenersOf(event), onceWrapper))
      /\ subscriptions' = subscriptions + 1
      /\ onceWrappers' =
           Put(onceWrappers, onceWrapper,
               [event |-> event, listener |-> listener, calls |-> 0])
      /\ lastEmit' = NoEmit
      /\ UNCHANGED << subscribedAt, outsideBus >>

\* off(event, listener): the listener leaves the set, and a topic left
\* without listeners leaves the map.
BusOff(event, listener) ==
  /\ events' =
       IF event \notin DOMAIN events THEN events
       ELSE IF SetDelete(events[event], listener) = <<>>
       THEN Delete(events, event)
       ELSE Put(events, event, SetDelete(events[event], listener))
  /\ subscribedAt' = [subscribedAt EXCEPT ![event][listener] = 0]
  /\ lastEmit' = NoEmit
  /\ UNCHANGED << subscriptions, onceWrappers, outsideBus >>

\* The loop of emit with its try/catch left out: the first throwing
\* listener ends the loop and the error reaches the publisher.
RECURSIVE InvokeUncaught(_, _)
InvokeUncaught(listeners, throwing) ==
  IF listeners = <<>> THEN [invoked |-> <<>>, raised |-> FALSE]
  ELSE IF Head(listeners) \in throwing
  THEN [invoked |-> << Head(listeners) >>, raised |-> TRUE]
  ELSE LET rest == InvokeUncaught(Tail(listeners), throwing)
       IN  [invoked |-> << Head(listeners) >> \o rest.invoked,
            raised |-> rest.raised]

\* The loop of emit: each listener is invoked in the order of the set, and
\* what a listener throws is caught and logged.
RECURSIVE InvokeAll(_, _)
InvokeAll(listeners, throwing) ==
  IF listeners = <<>> THEN [invoked |-> <<>>, raised |-> FALSE]
  ELSE LET rest == InvokeAll(Tail(listeners), throwing)
       IN  [invoked |-> << Head(listeners) >> \o rest.invoked,
            raised |-> rest.raised]

\* The closures of once() that remove themselves in an emit: those whose
\* listener returned, since a throw skips the removeListener that follows.
OnceRemoved(called, throwing) ==
  { w \in called : onceWrappers[w].listener \notin throwing }

\* emit(event, ...args), with `throwing` the listeners that throw on this
\* event: the listeners invoked and the result (false without listeners,
\* true otherwise, "raised" when an error leaves emit).
BusEmit(event, throwing) ==
  LET listeners == ListenersOf(event)
      loop == InvokeAll(listeners, throwing)
      called == Range(loop.invoked) \cap DOMAIN onceWrappers
      removed == OnceRemoved(called, throwing)
      remaining == SelectSeq(listeners, LAMBDA l : l \notin removed)
  IN  /\ lastEmit' =
           [topic |-> event, invoked |-> loop.invoked, throwing |-> throwing,
            result |-> IF listeners = <<>> THEN "false"
                       ELSE IF loop.raised THEN "raised" ELSE "true"]
      /\ events' =
           IF removed = {} THEN events
           ELSE IF remaining = <<>> THEN Delete(events, event)
           ELSE Put(events, event, remaining)
      /\ onceWrappers' =
           [w \in DOMAIN onceWrappers |->
              IF w \in called
              THEN [onceWrappers[w] EXCEPT !.calls = @ + 1]
              ELSE onceWrappers[w]]
      /\ UNCHANGED << subscriptions, subscribedAt, outsideBus >>

InitBus ==
  /\ events = EmptyRegistry
  /\ subscriptions = 0
  /\ subscribedAt = [e \in Topics |-> [l \in Listeners |-> 0]]
  /\ lastEmit = NoEmit
  /\ onceWrappers = EmptyRegistry

\* ----------------------------------------------------------- bridge service

\* GUARDIAN_RPC_HOSTS
GUARDIAN_RPC_HOSTS ==
  << "wormhole-v2-mainnet-api.certus.one", "wormhole.inotel.ro",
     "wormhole-v2-mainnet-api.mcf.rocks",
     "wormhole-v2-mainnet-api.chainlayer.network",
     "wormhole-v2-mainnet-api.staking.fund" >>

\* for (let attempt = 0; attempt < 30; attempt++)
MaxAttempts == 30

\* The base64 texts a guardian may send in vaaBytes, and the bytes
\* Buffer.from(text, 'base64') decodes them to.
PayloadTexts == {"AQ==", "Ag=="}

Base64Bytes(text) ==
  CASE text = "AQ==" -> << 1 >>
    [] text = "Ag==" -> << 2 >>

\* What one fetch of a guardian endpoint can produce: fetch rejects, a
\* response that is not ok, an ok response whose body does not parse, an ok
\* response without vaaBytes, an ok response with vaaBytes.
FetchOutcome(kind, vaaBytes) == [kind |-> kind, vaaBytes |-> vaaBytes]

FailedOutcomes ==
  { FetchOutcome(k, "") :
      k \in {"network_error", "non_success", "unparsable", "no_payload"} }

FetchOutcomes ==
  FailedOutcomes \cup { FetchOutcome("payload", t) : t \in PayloadTexts }

NoOutcome == FetchOutcome("none", "")

\* The chain ids a caller may pass; 5 has no token bridge contract.
ChainIds == {1, 5}

\* TOKEN_BRIDGE_CONTRACTS and providers: the chains with a contract and a
\* provider.
SupportedChains == {1, 137, 42161, 10, 8453, 56}

\* CHAIN_IDS[getChainName(chainId)]
WormholeChainId(chainId) ==
  CASE chainId = 1 -> 2
    [] chainId = 56 -> 4
    [] chainId = 137 -> 5
    [] chainId = 42161 -> 23
    [] chainId = 10 -> 24
    [] chainId = 8453 -> 30
    [] OTHER -> 2

\* The logs of a lock receipt: each log has a first topic and, for
\* LogMessagePublished, the sequence its data decodes to.
LogMessagePublished == "LogMessagePublished"

Log(topic, sequence) == [topic |-> topic, sequence |-> sequence]

Receipts ==
  { << >>,
    << Log("Transfer", 0) >>,
    << Log("Transfer", 0), Log(LogMessagePublished, 1) >>,
    << Log(LogMessagePublished, 2), Log(LogMessagePublished, 1) >> }

\* What the chain can answer to transferTokens: the approval fails, the
\* transfer transaction fails, or the transfer confirms with a receipt.
LockOutcome(kind, receipt) == [kind |-> kind, receipt |-> receipt]

LockOutcomes ==
  { LockOutcome("approve_failed", << >>), LockOutcome("transfer_failed", << >>) }
    \cup { LockOutcome("confirmed", r) : r \in Receipts }

\* receipt.logs.find(log => log.topics[0] === logTransferTopic)
RECURSIVE FindLog(_)
FindLog(logs) ==
  IF logs = << >> THEN << >>
  ELSE IF Head(logs).topic = LogMessagePublished THEN << Head(logs) >>
  ELSE FindLog(Tail(logs))

\* extractSequence: the sequence of the first LogMessagePublished log, or
\* the error thrown without one.
extractSequence(receipt) ==
  IF FindLog(receipt) = << >>
  THEN [thrown |-> TRUE, reason |-> "LogMessagePublished event not found",
        sequence |-> 0]
  ELSE [thrown |-> FALSE, reason |-> "", sequence |-> FindLog(receipt)[1].sequence]

\* `${sourceChainId}-${sequence}`
TransferKey(sourceChainId, sequence) == << sourceChainId, sequence >>

NoTransfer == [outcome |-> "none", reason |-> "", sourceChainId |-> 0, sequence |-> 0]

NoStatus == [status |-> "none", key |-> << >>, vaa |-> << >>]

\* transferTokens(sourceChainId, targetChainId, ...): what the call does for
\* the chain's answer `lock`.  The registry is written only after the
\* sequence was extracted from the receipt.
TransferOutcome(sourceChainId, lock) ==
  IF sourceChainId \notin SupportedChains
  THEN [outcome |-> "thrown", reason |-> "Token bridge not supported",
        sourceChainId |-> sourceChainId, sequence |-> 0]
  ELSE IF lock.kind # "confirmed"
  THEN [outcome |-> "thrown", reason |-> lock.kind,
        sourceChainId |-> sourceChainId, sequence |-> 0]
  ELSE IF extractSequence(lock.receipt).thrown
  THEN [outcome |-> "thrown", reason |-> extractSequence(lock.receipt).reason,
        sourceChainId |-> sourceChainId, sequence |-> 0]
  ELSE [outcome |-> "returned", reason |-> "",
        sourceChainId |-> sourceChainId,
        sequence |-> extractSequence(lock.receipt).sequence]

transferTokens(sourceChainId, targetChainId, lock) ==
  LET result == TransferOutcome(sourceChainId, lock)
  IN  /\ lastTransfer' = result
      /\ activeTransfers' =
           IF result.outcome = "returned"
           THEN Put(activeTransfers,
                    TransferKey(sourceChainId, result.sequence),
                    [tokenChain |-> WormholeChainId(sourceChainId),
                     targetChain |-> WormholeChainId(targetChainId)])
           ELSE activeTransfers
      /\ UNCHANGED << lastStatus, vaaCall, caller, attempt, hostIndex,
                      requests, sent, delays, lastOutcome, vaaValue,
                      bridge, outsideBridge >>

\* The bridgeTokens call: no call yet.
NoBridge ==
  [phase |-> "none", key |-> << >>, targetChainId |-> 0, steps |-> << >>,
   submitted |-> << >>]

\* No getSignedVAA call is under way, and no bridgeTokens call is about to
\* use the bytes the last one returned.
NoCallRunning ==
  /\ vaaCall \in {"idle", "returned", "thrown"}
  /\ ~(bridge.phase = "fetching" /\ vaaCall = "returned")

\* The entry of getSignedVAA: the loops start at attempt 0 and the first host.
EnterGetSignedVAA(who) ==
  /\ vaaCall' = "running"
  /\ caller' = who
  /\ attempt' = 0
  /\ hostIndex' = 1
  /\ requests' = 0
  /\ sent' = [i \in 1 .. Len(GUARDIAN_RPC_HOSTS) |-> 0]
  /\ delays' = 0
  /\ lastOutcome' = NoOutcome
  /\ vaaValue' = << >>

\* getSignedVAA(emitterChain, emitterAddress, sequence) called by itself.
getSignedVAA ==
  /\ NoCallRunning
  /\ EnterGetSignedVAA("direct")
  /\ UNCHANGED << activeTransfers, lastTransfer, lastStatus, bridge, outsideBridge >>

\* getTransferStatus(sourceChainId, sequence): not_found for a key that is
\* not registered, otherwise the call of getSignedVAA whose result decides
\* between ready and pending.
getTransferStatus(sourceChainId, sequence) ==
  LET key == TransferKey(sourceChainId, sequence)
  IN  /\ NoCallRunning
      /\ IF ~Has(activeTransfers, key)
         THEN /\ lastStatus' = [status |-> "not_found", key |-> key, vaa |-> << >>]
              /\ UNCHANGED << vaaCall, caller, attempt, hostIndex, requests,
                              sent, delays, lastOutcome, vaaValue >>
         ELSE /\ lastStatus' = NoStatus
              /\ EnterGetSignedVAA(key)
      /\ UNCHANGED << activeTransfers, lastTransfer, bridge, outsideBridge >>

\* The body of the inner loop with a slip: only a rejected fetch is caught
\* and a response that is not ok ends the call with an error.
AfterFetchThrowsOnStatus(outcome) ==
  IF outcome.kind = "payload"
  THEN [vaaCall |-> "returned", hostIndex |-> hostIndex,
        vaaValue |-> Base64Bytes(outcome.vaaBytes)]
  ELSE IF outcome.kind = "non_success"
  THEN [vaaCall |-> "thrown", hostIndex |-> hostIndex, vaaValue |-> << >>]
  ELSE IF hostIndex < Len(GUARDIAN_RPC_HOSTS)
  THEN [vaaCall |-> "running", hostIndex |-> hostIndex + 1, vaaValue |-> << >>]
  ELSE [vaaCall |-> "delaying", hostIndex |-> hostIndex, vaaValue |-> << >>]

\* The body of the inner loop with a slip: a successful response does not
\* end the loops.
AfterFetchKeepsAsking(outcome) ==
  IF hostIndex < Len(GUARDIAN_RPC_HOSTS)
  THEN [vaaCall |-> "running", hostIndex |-> hostIndex + 1,
        vaaValue |-> IF outcome.kind = "payload"
                     THEN Base64Bytes(outcome.vaaBytes) ELSE << >>]
  ELSE [vaaCall |-> IF outcome.kind = "payload" THEN "returned" ELSE "delaying",
        hostIndex |-> hostIndex,
        vaaValue |-> IF outcome.kind = "payload"
                     THEN Base64Bytes(outcome.vaaBytes) ELSE << >>]

\* The body of the inner loop after one fetch: an ok response whose body
\* parses and holds vaaBytes returns the decoded bytes; a response that is
\* not ok falls through, and whatever is thrown (by fetch, by json(), by
\* Buffer.from of a missing vaaBytes) is caught; both go on to the next
\* host, or to the delay after the last host.
AfterFetch(outcome) ==
  IF outcome.kind = "payload"
  THEN [vaaCall |-> "returned", hostIndex |-> hostIndex,
        vaaValue |-> Base64Bytes(outcome.vaaBytes)]
  ELSE IF hostIndex < Len(GUARDIAN_RPC_HOSTS)
  THEN [vaaCall |-> "running", hostIndex |-> hostIndex + 1, vaaValue |-> << >>]
  ELSE [vaaCall |-> "delaying", hostIndex |-> hostIndex, vaaValue |-> << >>]

\* The result getTransferStatus derives from the end of its getSignedVAA
\* call.
StatusAfter(call, value) ==
  IF caller = "direct" \/ call \notin {"returned", "thrown"} THEN lastStatus
  ELSE IF call = "returned"
  THEN [status |-> "ready", key |-> caller, vaa |-> value]
  ELSE [status |-> "pending", key |-> caller, vaa |-> << >>]

\* One fetch of the current host, with its outcome.
GuardianRequest(outcome) ==
  LET after == AfterFetch(outcome)
  IN  /\ vaaCall = "running"
      /\ requests' = requests + 1
      /\ sent' = [sent EXCEPT ![hostIndex] = @ + 1]
      /\ lastOutcome' = outcome
      /\ vaaCall' = after.vaaCall
      /\ hostIndex' = after.hostIndex
      /\ vaaValue' = after.vaaValue
      /\ lastStatus' = StatusAfter(after.vaaCall, after.vaaValue)
      /\ UNCHANGED << activeTransfers, lastTransfer, caller, attempt, delays,
                      bridge, outsideBridge >>

\* The rounds a call may make, with a slip in the loop condition.
RoundsLeftOffByOne(done) == done <= MaxAttempts

\* attempt < 30, after attempt++
RoundsLeft(done) == done < MaxAttempts

\* The end of a round without success: the 5-second delay, attempt++, then
\* the next round, or the error after the last round.
GuardianDelay ==
  /\ vaaCall = "delaying"
  /\ delays' = delays + 1
  /\ attempt' = attempt + 1
  /\ vaaCall' = IF RoundsLeft(attempt + 1) THEN "running" ELSE "thrown"
  /\ hostIndex' = 1
  /\ lastStatus' =
       StatusAfter(IF RoundsLeft(attempt + 1) THEN "running" ELSE "thrown",
                   << >>)
  /\ UNCHANGED << activeTransfers, lastTransfer, caller, requests, sent,
                  lastOutcome, vaaValue, bridge, outsideBridge >>

\* The chain ids a caller may pass as target; 5 has no token bridge contract.
TargetChainIds == {10, 5}

\* What the target chain can answer to completeTransfer.
CompleteOutcomes == {"confirmed", "failed"}

\* bridgeTokens up to its first await inside getSignedVAA: transferTokens
\* (which registers the transfer when the lock confirmed with a sequence),
\* then the call of getSignedVAA.  What transferTokens throws ends the call.
bridgeTokens(sourceChainId, targetChainId, lock) ==
  LET locked == TransferOutcome(sourceChainId, lock)
      key == TransferKey(sourceChainId, locked.sequence)
      lockSent == sourceChainId \in SupportedChains /\ lock.kind # "approve_failed"
  IN  /\ NoCallRunning
      /\ lastTransfer' = locked
      /\ IF locked.outcome = "returned"
         THEN /\ activeTransfers' =
                   Put(activeTransfers, key,
                       [tokenChain |-> WormholeChainId(sourceChainId),
                        targetChain |-> WormholeChainId(targetChainId)])
              /\ EnterGetSignedVAA("bridgeTokens")
              /\ bridge' = [phase |-> "fetching", key |-> key,
                            targetChainId |-> targetChainId,
                            steps |-> << "lock", "fetch" >>,
                            submitted |-> << >>]
         ELSE /\ bridge' = [phase |-> "failed", key |-> << >>,
                            targetChainId |-> targetChainId,
                            steps |-> IF lockSent THEN << "lock" >> ELSE << >>,
                            submitted |-> << >>]
              /\ UNCHANGED << activeTransfers, vaaCall, caller, attempt,
                              hostIndex, requests, sent, delays, lastOutcome,
                              vaaValue >>
      /\ UNCHANGED << lastStatus, outsideBridge >>

\* completeTransfer with a slip in its caller: the error of getSignedVAA is
\* swallowed and the completion is submitted without an attestation.
completeTransferUnfetched(answer) ==
  /\ bridge.phase = "fetching"
  /\ caller = "bridgeTokens"
  /\ vaaCall \in {"returned", "thrown"}
  /\ bridge' =
       IF bridge.targetChainId \notin SupportedChains
       THEN [bridge EXCEPT !.phase = "failed"]
       ELSE [bridge EXCEPT
               !.phase = IF answer = "confirmed" THEN "completed" ELSE "failed",
               !.steps = Append(@, "complete"),
               !.submitted = vaaValue]
  /\ UNCHANGED << activeTransfers, lastTransfer, lastStatus, vaaCall, caller,
                  attempt, hostIndex, requests, sent, delays, lastOutcome,
                  vaaValue, outsideBridge >>

\* The rest of bridgeTokens once getSignedVAA returned: completeTransfer
\* submits the fetched bytes on the target chain (it throws before
\* submitting when the target chain has no contract) and the chain confirms
\* or rejects.
completeTransfer(answer) ==
  /\ bridge.phase = "fetching"
  /\ caller = "bridgeTokens"
  /\ vaaCall = "returned"
  /\ bridge' =
       IF bridge.targetChainId \notin SupportedChains
       THEN [bridge EXCEPT !.phase = "failed"]
       ELSE [bridge EXCEPT
               !.phase = IF answer = "confirmed" THEN "completed" ELSE "failed",
               !.steps = Append(@, "complete"),
               !.submitted = vaaValue]
  /\ UNCHANGED << activeTransfers, lastTransfer, lastStatus, vaaCall, caller,
                  attempt, hostIndex, requests, sent, delays, lastOutcome,
                  vaaValue, outsideBridge >>

\* The bridgeTokens call has ended: with the hashes of both transactions, or
\* with the error of one of its steps.
BridgeCompleted == bridge.phase = "completed"

BridgeFailed ==
  \/ bridge.phase = "failed"
  \/ bridge.phase = "fetching" /\ caller = "bridgeTokens" /\ vaaCall = "thrown"

\* The statuses getTransferStatus can return for a key in the current state.
StatusesOf(key) ==
  IF ~Has(activeTransfers, key) THEN {"not_found"} ELSE {"ready", "pending"}

InitBridge ==
  /\ activeTransfers = EmptyRegistry
  /\ lastTransfer = NoTransfer
  /\ lastStatus = NoStatus
  /\ vaaCall = "idle"
  /\ caller = "none"
  /\ attempt = 0
  /\ hostIndex = 1
  /\ requests = 0
  /\ sent = [i \in 1 .. Len(GUARDIAN_RPC_HOSTS) |-> 0]
  /\ delays = 0
  /\ lastOutcome = NoOutcome
  /\ vaaValue = << >>
  /\ bridge = NoBridge

\* ------------------------------------------------------------ price oracle

\* private readonly CACHE_DURATION = 60000
CACHE_DURATION == 60000

\* The time between two observations of the oracle's clock.
ClockStep == 30000

\* The symbols callers ask for: ETH in either case, and UNI.
Symbols == { "ETH", "eth", "UNI" }

\* symbol.toUpperCase()
toUpperCase(symbol) == IF symbol = "eth" THEN "ETH" ELSE symbol

\* The keys of TOKEN_ID_MAP among the symbols, and those of paprikaIds.
TOKEN_ID_MAP == { "ETH", "UNI" }

paprikaIds == { "ETH" }

\* What a source can answer: the request fails, or it brings a price (0
\* stands for a response without a price).
SourceAnswer(kind, usd) == [kind |-> kind, usd |-> usd]

SourceAnswers ==
  { SourceAnswer("fails", 0) } \cup { SourceAnswer("data", u) : u \in {0, 7, 9} }

NoPrice == [symbol |-> "none", usd |-> 0, requests |-> 0, source |-> "none"]

NoFetch == [usd |-> 0, at |-> 0, source |-> "none"]

\* isCached(symbol)
isCached(symbol) ==
  IF ~Has(cache, symbol) THEN FALSE
  ELSE priceNow - cache[symbol].timestamp < CACHE_DURATION

\* fetchPriceFromCoinGecko: it throws for an unknown token, a failed
\* request or a response without a price, and otherwise caches the price.
fetchPriceFromCoinGecko(symbol, primary) ==
  IF toUpperCase(symbol) \notin TOKEN_ID_MAP
  THEN [thrown |-> TRUE, usd |-> 0, requests |-> 0]
  ELSE IF primary.kind = "fails" \/ primary.usd = 0
  THEN [thrown |-> TRUE, usd |-> 0, requests |-> 1]
  ELSE [thrown |-> FALSE, usd |-> primary.usd, requests |-> 1]

\* fetchPriceFromFallback: it throws for an unknown token or a failed
\* request, and otherwise returns the price without caching it.
fetchPriceFromFallback(symbol, fallback) ==
  IF toUpperCase(symbol) \notin paprikaIds
  THEN [thrown |-> TRUE, usd |-> 0, requests |-> 0]
  ELSE IF fallback.kind = "fails"
  THEN [thrown |-> TRUE, usd |-> 0, requests |-> 1]
  ELSE [thrown |-> FALSE, usd |-> fallback.usd, requests |-> 1]

\* getPrice(symbol), with the answers the two sources would give: the
\* cached price without a request, else the primary source, else the
\* fallback source, else 0.
getPrice(symbol, primary, fallback) ==
  LET cacheKey == toUpperCase(symbol)
      first == fetchPriceFromCoinGecko(symbol, primary)
      second == fetchPriceFromFallback(symbol, fallback)
      answer ==
        IF isCached(cacheKey)
        THEN [symbol |-> symbol, usd |-> cache[cacheKey].usd, requests |-> 0,
              source |-> "cache"]
        ELSE IF ~first.thrown
        THEN [symbol |-> symbol, usd |-> first.usd,
              requests |-> first.requests, source |-> "primary"]
        ELSE IF ~second.thrown
        THEN [symbol |-> symbol, usd |-> second.usd,
              requests |-> first.requests + second.requests,
              source |-> "fallback"]
        ELSE [symbol |-> symbol, usd |-> 0,
              requests |-> first.requests + second.requests,
              source |-> "none"]
  IN  /\ lastPrice' = answer
      /\ cache' =
           IF answer.source = "primary"
           THEN Put(cache, cacheKey, [usd |-> answer.usd, timestamp |-> priceNow])
           ELSE cache
      /\ fetched' =
           IF answer.source \in { "primary", "fallback" } /\ answer.usd # 0
           THEN [fetched EXCEPT ![cacheKey] =
                   [usd |-> answer.usd, at |-> priceNow,
                    source |-> answer.source]]
           ELSE fetched
      /\ UNCHANGED << priceNow, outsideOracle >>

\* clearCache()
clearCache ==
  /\ cache' = EmptyRegistry
  /\ fetched' = [k \in DOMAIN fetched |-> NoFetch]
  /\ lastPrice' = NoPrice
  /\ UNCHANGED << priceNow, outsideOracle >>

\* Time passes between two calls.
ClockAdvance ==
  /\ priceNow' = priceNow + ClockStep
  /\ lastPrice' = NoPrice
  /\ UNCHANGED << cache, fetched, outsideOracle >>

InitOracle ==
  /\ cache = EmptyRegistry
  /\ priceNow = 0
  /\ lastPrice = NoPrice
  /\ fetched = [k \in { toUpperCase(y) : y \in Symbols } |-> NoFetch]

\* ----------------------------------------------------------- pure functions

NoArgs == << >>

NotApplied == [done |-> FALSE]

\* No function is being applied.
InitPure == args = NoArgs /\ produced = NotApplied

\* --------------------------------------------------- the attestation codec

\* The largest signature count of the attestations that are encoded.
MaxSignatures == 2

\* What reading a Uint8Array past its end gives.
Undefined == 0 - 1

\* vaaBytes[index], index counted from 0.
ByteAt(vaaBytes, index) ==
  IF index < Len(vaaBytes) THEN vaaBytes[index + 1] ELSE Undefined

\* vaaBytes.slice(from, to): the bytes that exist at the indexes from .. to-1.
Slice(vaaBytes, from, to) ==
  LET end == IF to < Len(vaaBytes) THEN to ELSE Len(vaaBytes)
  IN  IF from >= end THEN << >> ELSE SubSeq(vaaBytes, from + 1, end)

\* The operand of << and | as a 32-bit integer: undefined becomes 0.
ToInt32(x) == IF x = Undefined THEN 0 ELSE x

\* (b0 << 24) | (b1 << 16) | (b2 << 8) | b3 on 32-bit signed integers: bit
\* 7 of b0 lands in the sign bit, and the four operands share no bit, so
\* the | adds them.
Int32At(vaaBytes, index) ==
  LET b0 == ToInt32(ByteAt(vaaBytes, index))
      b1 == ToInt32(ByteAt(vaaBytes, index + 1))
      b2 == ToInt32(ByteAt(vaaBytes, index + 2))
      b3 == ToInt32(ByteAt(vaaBytes, index + 3))
  IN  (IF b0 >= 128 THEN b0 - 256 ELSE b0) * 16777216
      + b1 * 65536 + b2 * 256 + b3

\* (b0 << 8) | b1.
Int16At(vaaBytes, index) ==
  ToInt32(ByteAt(vaaBytes, index)) * 256 + ToInt32(ByteAt(vaaBytes, index + 1))

\* ethers.hexlify: two hexadecimal digits for each byte.
hexlify(bytes) ==
  [i \in 1 .. 2 * Len(bytes) |->
     IF i % 2 = 1 THEN bytes[(i + 1) \div 2] \div 16 ELSE bytes[i \div 2] % 16]

\* A number too wide for the checker's integers is its numeral in base 256
\* without leading zeros; BigInt('0x' + hex) of bytes is the numeral that
\* is left when the leading zero bytes are dropped.
RECURSIVE StripZeros(_)
StripZeros(bytes) ==
  IF bytes = << >> \/ Head(bytes) # 0 THEN bytes ELSE StripZeros(Tail(bytes))

\* parseVAA(vaaBytes): the fields are read at a running index with no check
\* of the length; the only statement that can throw is BigInt, whose
\* argument is '0x' when no byte of the sequence is left.
parseVAA(vaaBytes) ==
  LET version == ByteAt(vaaBytes, 0)
      guardianSetIndex == Int32At(vaaBytes, 1)
      sigLength == ByteAt(vaaBytes, 5)
      count == IF sigLength = Undefined THEN 0 ELSE sigLength
      signatures ==
        [i \in 1 .. count |->
           [guardianIndex |-> ByteAt(vaaBytes, 6 + 66 * (i - 1)),
            signature |-> Slice(vaaBytes, 7 + 66 * (i - 1), 72 + 66 * (i - 1))]]
      index == 6 + 66 * count
      sequenceBytes == Slice(vaaBytes, index + 42, index + 50)
  IN  IF sequenceBytes = << >>
      THEN [done |-> TRUE, thrown |-> TRUE, error |-> "SyntaxError"]
      ELSE [done |-> TRUE, thrown |-> FALSE,
            vaa |-> [version |-> version,
                     guardianSetIndex |-> guardianSetIndex,
                     signatures |-> signatures,
                     timestamp |-> Int32At(vaaBytes, index),
                     nonce |-> Int32At(vaaBytes, index + 4),
                     emitterChain |-> Int16At(vaaBytes, index + 8),
                     emitterAddress |->
                       hexlify(Slice(vaaBytes, index + 10, index + 42)),
                     sequence |-> StripZeros(sequenceBytes),
                     consistencyLevel |-> ByteAt(vaaBytes, index + 50),
                     payload |-> Slice(vaaBytes, index + 51, Len(vaaBytes))]]

\* The signature count a buffer declares in its sixth byte.
DeclaredCount(vaaBytes) ==
  IF ByteAt(vaaBytes, 5) = Undefined THEN 0 ELSE ByteAt(vaaBytes, 5)

\* The length of the fixed fields and of n signatures.
MinimumLength(n) == 1 + 4 + 1 + 66 * n + 4 + 4 + 2 + 32 + 8 + 1

\* A numeral written on width bytes, most significant first.
RECURSIVE PadLeft(_, _)
PadLeft(numeral, width) ==
  IF Len(numeral) >= width THEN numeral ELSE PadLeft(<< 0 >> \o numeral, width)

\* The bytes two hexadecimal digits stand for.
BytesOfHex(digits) ==
  [i \in 1 .. Len(digits) \div 2 |-> digits[2 * i - 1] * 16 + digits[2 * i]]

RECURSIVE EncodeSignatures(_)
EncodeSignatures(signatures) ==
  IF signatures = << >> THEN << >>
  ELSE << Head(signatures).guardianIndex >> \o Head(signatures).signature
       \o EncodeSignatures(Tail(signatures))

\* The documented layout of an attestation: the fields in their fixed
\* order, the integers big-endian on their width.
encode(a) ==
  << a.version >> \o PadLeft(a.guardianSetIndex, 4)
  \o << Len(a.signatures) >> \o EncodeSignatures(a.signatures)
  \o PadLeft(a.timestamp, 4) \o PadLeft(a.nonce, 4)
  \o PadLeft(a.emitterChain, 2) \o BytesOfHex(a.emitterAddress)
  \o PadLeft(a.sequence, 8) \o << a.consistencyLevel >> \o a.payload

\* The numeral of a number the checker's integers can hold.
RECURSIVE NumeralOf(_)
NumeralOf(n) ==
  IF n = 0 THEN << >> ELSE Append(NumeralOf(n \div 256), n % 256)

\* A decoded integer is the number a numeral stands for.
SameNumber(n, numeral) == n >= 0 /\ NumeralOf(n) = numeral

\* A decoded record has the fields of an attestation.
SameAttestation(vaa, a) ==
  /\ vaa.version = a.version
  /\ SameNumber(vaa.guardianSetIndex, a.guardianSetIndex)
  /\ vaa.signatures = a.signatures
  /\ SameNumber(vaa.timestamp, a.timestamp)
  /\ SameNumber(vaa.nonce, a.nonce)
  /\ SameNumber(vaa.emitterChain, a.emitterChain)
  /\ vaa.emitterAddress = a.emitterAddress
  /\ vaa.sequence = a.sequence
  /\ vaa.consistencyLevel = a.consistencyLevel
  /\ vaa.payload = a.payload

\* The 32-bit values of the encoded attestations, as numerals.
FieldNumerals ==
  { << 1, 2 >>, << 127, 255, 255, 255 >>, << 128, 0, 0, 0 >>,
    << 255, 255, 255, 255 >> }

\* The signature of the guardian at a position, no byte of it zero.
SignatureOf(i) ==
  [guardianIndex |-> i - 1,
   signature |-> [j \in 1 .. 65 |-> 1 + ((i + j) % 255)]]

\* The payloads of the encoded attestations.
Payloads == { << >>, << 7, 9 >> }

\* Well-formed attestations with 0 .. MaxSignatures signatures.
Attestations ==
  { [version |-> 1,
     guardianSetIndex |-> g,
     signatures |-> [i \in 1 .. n |-> SignatureOf(i)],
     timestamp |-> t,
     nonce |-> c,
     emitterChain |-> << 128, 2 >>,
     emitterAddress |-> [i \in 1 .. 64 |-> 1 + (i % 15)],
     sequence |-> << 200, 1, 2 >>,
     consistencyLevel |-> 15,
     payload |-> p] :
    g \in FieldNumerals, t \in FieldNumerals, c \in FieldNumerals,
    n \in 0 .. MaxSignatures, p \in Payloads }

\* The attestations whose encodings are also cut short.
TruncatedAttestations ==
  { a \in Attestations :
      /\ a.guardianSetIndex = << 1, 2 >>
      /\ a.timestamp = << 1, 2 >>
      /\ a.nonce = << 1, 2 >> }

\* The buffers parseVAA is applied to: every encoding, and every prefix of
\* some of them.
VaaBuffers ==
  { encode(a) : a \in Attestations }
  \cup UNION { { SubSeq(encode(a), 1, k) : k \in 0 .. Len(encode(a)) } :
               a \in TruncatedAttestations }

\* ------------------------------------------------- the mapping of a status

\* The status strings an answer can carry; the last two are not cases of
\* the switch.
MappingStatuses ==
  { "pending", "in_auction", "resolver_selected", "executing", "completed",
    "failed", "expired", "unknown", "cancelled" }

\* Answers with and without a resolver, with 0, 1 or 2 fill records.
MappingResponses ==
  { Response(TRUE, st, r, f) :
      st \in MappingStatuses,
      r \in {<<>>} \cup { <<a>> : a \in Resolvers },
      f \in 0 .. 2 }

\* The entries the answer can meet: any state, with or without a resolver.
MappingAuctions ==
  { [NewAuction(1, 1) EXCEPT !.state = st, !.resolver = r] :
      st \in AuctionState,
      r \in { <<>>, << [address |-> "r0", bidAmount |-> "0",
                        reputation |-> 0, estimatedTime |-> 300] >> } }

\* checkAuctionStatus after its await, for the entry and the answer of the
\* arguments: the entry it leaves and its emit calls.
ApplyCheckAuctionStatus ==
  /\ produced = NotApplied
  /\ "auction" \in DOMAIN args
  /\ LET reg == Put(EmptyRegistry, "o1", args.auction)
     IN  produced' =
           [done |-> TRUE,
            auction |-> CheckedRegistry(reg, "o1", args.status)["o1"],
            emits |-> CheckedEmits(reg, "o1", args.status)]
  /\ UNCHANGED << args, outsidePure >>

\* ------------------------------------------------ biometric key protection

\* What a call of the platform can do: resolve to true or false, or reject.
PlatformAnswers == { "true", "false", "throws" }

\* What LocalAuthentication.authenticateAsync can do: resolve with success,
\* resolve without it (a failed match, or the user cancelling), or reject.
AuthAnswers == { "success", "failed", "cancelled", "throws" }

\* What AsyncStorage can do when asked.
StorageAnswers == { "ok", "throws" }

\* The item pk_<walletId> of AsyncStorage: null, or a key.
NoKey == "null"

StoredKeys == { NoKey, "k1" }

\* The key storePrivateKeyWithBiometric is given.
NewKey == "k2"

\* isAvailable: hardware and enrolment, false when either call rejects.
isAvailable(env) ==
  IF env.hasHardwareAsync = "throws" \/ env.isEnrolledAsync = "throws"
  THEN FALSE
  ELSE env.hasHardwareAsync = "true" /\ env.isEnrolledAsync = "true"

\* authenticate with a slip: every prompt that resolves counts as a success.
authenticateIgnoresResult(env) ==
  IF ~isAvailable(env) THEN FALSE
  ELSE IF env.authenticateAsync = "throws" THEN FALSE
  ELSE TRUE

\* authenticate: the success field of its result.  Not available, a prompt
\* that resolves without success and a prompt that rejects all give false.
authenticate(env) ==
  IF ~isAvailable(env) THEN FALSE
  ELSE IF env.authenticateAsync = "throws" THEN FALSE
  ELSE env.authenticateAsync = "success"

\* storePrivateKeyWithBiometric(walletId, privateKey): what it returns and
\* the item it leaves in storage.
storePrivateKeyWithBiometric ==
  /\ produced = NotApplied
  /\ "authenticateAsync" \in DOMAIN args
  /\ produced' =
       IF ~authenticate(args)
       THEN [done |-> TRUE, op |-> "store", returned |-> "false",
             stored |-> args.stored]
       ELSE IF args.setItem = "throws"
       THEN [done |-> TRUE, op |-> "store", returned |-> "false",
             stored |-> args.stored]
       ELSE [done |-> TRUE, op |-> "store", returned |-> "true",
             stored |-> NewKey]
  /\ UNCHANGED << args, outsidePure >>

\* retrievePrivateKeyWithBiometric(walletId): the key it returns, or null.
retrievePrivateKeyWithBiometric ==
  /\ produced = NotApplied
  /\ "authenticateAsync" \in DOMAIN args
  /\ produced' =
       IF ~authenticate(args)
       THEN [done |-> TRUE, op |-> "retrieve", returned |-> NoKey,
             stored |-> args.stored]
       ELSE IF args.getItem = "throws" \/ args.stored = NoKey
       THEN [done |-> TRUE, op |-> "retrieve", returned |-> NoKey,
             stored |-> args.stored]
       ELSE [done |-> TRUE, op |-> "retrieve", returned |-> args.stored,
             stored |-> args.stored]
  /\ UNCHANGED << args, outsidePure >>

\* A caller applies parseVAA to its buffer.
ApplyParseVAA ==
  /\ produced = NotApplied
  /\ "vaaBytes" \in DOMAIN args
  /\ produced' = parseVAA(args.vaaBytes)
  /\ UNCHANGED << args, outsidePure >>

\* ---------------------------------------------------------- specifications

InitTracker ==
  /\ now = 0
  /\ activeAuctions = EmptyRegistry
  /\ nextTimer = 1
  /\ timerOrder = [t \in TimerIds |-> NoOrder]
  /\ liveTimers = {}
  /\ awaiting = [t \in TimerIds |-> 0]
  /\ resumed = [t \in TimerIds |-> 0]
  /\ out = <<>>
  /\ last = [op |-> "init", orders |-> {}]
  /\ lastUpdate = [h \in Orders |-> NoState]
  /\ stopped = [h \in Orders |-> FALSE]
  /\ timedOut = [h \in Orders |-> FALSE]
  /\ terminalDone = [h \in Orders |-> FALSE]

\* Everything but the tracker's script and the arguments of pure functions.
InitRest == InitTracker /\ InitBus /\ InitBridge /\ InitOracle

Init == InitRest /\ script = <<>> /\ InitPure

\* One order hash, any caller, any answers of the status service.
Next ==
  \/ \E k \in TimeoutTwelfths :
       nextTimer <= MaxTimers /\ trackOrder("o1", k) /\ UNCHANGED << script, outsideTracker >>
  \/ now < MaxTicks * PollIntervalMs /\ Tick /\ UNCHANGED << script, outsideTracker >>
  \/ \E t \in Timers, status \in Responses :
       checkAuctionStatus(t, status) /\ UNCHANGED << script, outsideTracker >>
  \/ \E t \in Timers : pollCallback(t) /\ UNCHANGED << script, outsideTracker >>
  \/ stopTracking("o1") /\ UNCHANGED << script, outsideTracker >>

Spec == Init /\ [][Next]_vars

\* Two order hashes and stopAll, with the answers of the status service
\* drawn from one failure, one non-terminal and one terminal status.
AllResponses ==
  { QueryFailure, Response(TRUE, "in_auction", <<>>, 0),
    Response(TRUE, "completed", <<>>, 0) }

NextAll ==
  \/ \E h \in Orders, k \in TimeoutTwelfths :
       nextTimer <= AllTimers /\ trackOrder(h, k) /\ UNCHANGED << script, outsideTracker >>
  \/ now < AllTicks * PollIntervalMs /\ Tick /\ UNCHANGED << script, outsideTracker >>
  \/ \E t \in Timers, status \in AllResponses :
       checkAuctionStatus(t, status) /\ UNCHANGED << script, outsideTracker >>
  \/ \E t \in Timers : pollCallback(t) /\ UNCHANGED << script, outsideTracker >>
  \/ \E h \in Orders : stopTracking(h) /\ UNCHANGED << script, outsideTracker >>
  \/ stopAll /\ UNCHANGED << script, outsideTracker >>

SpecAll == Init /\ [][NextAll]_vars

\* The scripted scenarios: one registration of "o1", and the status service
\* answers the polls with the entries of `script`, in order.
HappyPath ==
  << Response(TRUE, "pending", <<>>, 0),
     Response(TRUE, "in_auction", <<>>, 0),
     Response(TRUE, "resolver_selected", <<"r1">>, 0),
     Response(TRUE, "executing", <<>>, 0),
     Response(TRUE, "executing", <<>>, 1),
     Response(TRUE, "completed", <<>>, 0) >>

StaysPending == [i \in 1 .. ScenarioTicks |-> Response(TRUE, "pending", <<>>, 0)]

\* 5000 ms (one poll interval), or the default of 30 minutes.
ScenarioTwelfths == {1, 12 * 30}

NextScenario ==
  \/ \E k \in ScenarioTwelfths :
       nextTimer = 1 /\ trackOrder("o1", k) /\ UNCHANGED << script, outsideTracker >>
  \/ now < ScenarioTicks * PollIntervalMs /\ Tick /\ UNCHANGED << script, outsideTracker >>
  \/ \E t \in Timers :
       /\ script # <<>>
       /\ checkAuctionStatus(t, Head(script))
       /\ script' = Tail(script)
       /\ UNCHANGED outsideTracker
  \/ \E t \in Timers : pollCallback(t) /\ UNCHANGED << script, outsideTracker >>

InitHappy == InitRest /\ script = HappyPath /\ InitPure

SpecHappy == InitHappy /\ [][NextScenario]_vars

InitPending == InitRest /\ script = StaysPending /\ InitPure

SpecPending == InitPending /\ [][NextScenario]_vars

\* One registration of "o1" that is never stopped, with fair timers: once
\* the order is registered the clock runs (to LiveTicks intervals, past the
\* timeout), the interval timer fires at each interval and a resumed callback
\* always runs to its end.  The status service answers anything, or never.
LiveTick ==
  /\ nextTimer = 2
  /\ now < LiveTicks * PollIntervalMs
  /\ Tick
  /\ UNCHANGED << script, outsideTracker >>

LiveCallback == \E t \in Timers : pollCallback(t) /\ UNCHANGED << script, outsideTracker >>

NextLive ==
  \/ \E k \in TimeoutTwelfths :
       nextTimer = 1 /\ trackOrder("o1", k) /\ UNCHANGED << script, outsideTracker >>
  \/ LiveTick
  \/ \E t \in Timers, status \in Responses :
       checkAuctionStatus(t, status) /\ UNCHANGED << script, outsideTracker >>
  \/ LiveCallback

SpecLive ==
  Init /\ [][NextLive]_vars /\ WF_vars(LiveTick) /\ WF_vars(LiveCallback)

\* One registration of "o1", with the status service naming either of two
\* resolver addresses, or none, in its resolver_selected answers.
ResolverAddresses == {"r1", "r2"}

ResolverResponses ==
  { Response(TRUE, "in_auction", <<>>, 0) }
    \cup { Response(TRUE, "resolver_selected", r, 0) :
             r \in {<<>>} \cup { <<a>> : a \in ResolverAddresses } }

NextResolver ==
  \/ \E k \in ScenarioTwelfths :
       nextTimer = 1 /\ trackOrder("o1", k) /\ UNCHANGED << script, outsideTracker >>
  \/ now < ResolverTicks * PollIntervalMs /\ Tick /\ UNCHANGED << script, outsideTracker >>
  \/ \E t \in Timers, status \in ResolverResponses :
       checkAuctionStatus(t, status) /\ UNCHANGED << script, outsideTracker >>
  \/ \E t \in Timers : pollCallback(t) /\ UNCHANGED << script, outsideTracker >>

SpecResolver == Init /\ [][NextResolver]_vars

\* The event bus alone: any on, off and emit calls, with any listeners
\* throwing.
NextBus ==
  \/ \E e \in Topics, l \in Listeners :
       subscriptions < MaxSubscriptions /\ BusOn(e, l)
  \/ \E e \in Topics, l \in Listeners : BusOff(e, l)
  \/ \E e \in Topics, throwing \in SUBSET Listeners : BusEmit(e, throwing)

SpecBus == Init /\ [][NextBus]_vars

\* The subscriptions and the emits the once() closures are observed under.
MaxOnce == 3

\* The calls of one closure that are observed.
MaxOnceCalls == 2

\* The event bus with one-time listeners: any on, once, off and emit calls,
\* with any listeners throwing.
NextOnce ==
  \/ \E e \in Topics, l \in Listeners :
       subscriptions < MaxOnce /\ BusOn(e, l)
  \/ \E e \in Topics, l \in Listeners :
       subscriptions < MaxOnce /\ BusOnce(e, l)
  \/ \E e \in Topics, l \in Listeners : BusOff(e, l)
  \/ \E e \in Topics, throwing \in SUBSET Listeners :
       /\ \A w \in DOMAIN onceWrappers : onceWrappers[w].calls < MaxOnceCalls
       /\ BusEmit(e, throwing)

SpecOnce == Init /\ [][NextOnce]_vars

\* The guardian client alone: getSignedVAA calls whose fetches end in any
\* way.
NextGuardian ==
  \/ getSignedVAA
  \/ \E outcome \in FetchOutcomes : GuardianRequest(outcome)
  \/ GuardianDelay

SpecGuardian == Init /\ [][NextGuardian]_vars

\* The transfer registry: locks on a supported and on an unsupported chain
\* with any answer of the chain, and status queries of any key, whose
\* getSignedVAA call meets guardians that answer not ok or with a payload.
StatusFetchOutcomes ==
  { FetchOutcome("non_success", ""), FetchOutcome("payload", "AQ==") }

NextTransfer ==
  \/ \E c \in ChainIds, lock \in LockOutcomes : transferTokens(c, 10, lock)
  \/ \E c \in ChainIds, q \in {1, 2} : getTransferStatus(c, q)
  \/ \E outcome \in StatusFetchOutcomes : GuardianRequest(outcome)
  \/ GuardianDelay

SpecTransfer == Init /\ [][NextTransfer]_vars

\* bridgeTokens calls, one after the other, with any answer of the source
\* chain, of the guardians and of the target chain.
NextBridgeTokens ==
  \/ \E c \in ChainIds, target \in TargetChainIds, lock \in LockOutcomes :
       bridgeTokens(c, target, lock)
  \/ \E outcome \in StatusFetchOutcomes : GuardianRequest(outcome)
  \/ GuardianDelay
  \/ \E answer \in CompleteOutcomes : completeTransfer(answer)

SpecBridgeTokens == Init /\ [][NextBridgeTokens]_vars

\* parseVAA applied to one buffer.
InitCodec ==
  /\ InitRest
  /\ script = << >>
  /\ args \in [vaaBytes : VaaBuffers]
  /\ produced = NotApplied

NextCodec == ApplyParseVAA

SpecCodec == InitCodec /\ [][NextCodec]_vars

\* checkAuctionStatus applied to one entry and one answer.
InitMapping ==
  /\ InitRest
  /\ script = << >>
  /\ args \in [status : MappingResponses, auction : MappingAuctions]
  /\ produced = NotApplied

NextMapping == ApplyCheckAuctionStatus

SpecMapping == InitMapping /\ [][NextMapping]_vars

\* One call of the key store, for any answers of the platform and any
\* stored item.
InitBiometric ==
  /\ InitRest
  /\ script = << >>
  /\ args \in [hasHardwareAsync : PlatformAnswers,
               isEnrolledAsync : PlatformAnswers,
               authenticateAsync : AuthAnswers,
               setItem : StorageAnswers,
               getItem : StorageAnswers,
               stored : StoredKeys]
  /\ produced = NotApplied

NextBiometric ==
  \/ storePrivateKeyWithBiometric
  \/ retrievePrivateKeyWithBiometric

SpecBiometric == InitBiometric /\ [][NextBiometric]_vars

\* The clock steps the oracle is observed for.
MaxClockSteps == 3

\* The price oracle alone: getPrice calls with any answers of the two
\* sources, clearCache, and time passing.
NextOracle ==
  \/ \E y \in Symbols, primary \in SourceAnswers, fallback \in SourceAnswers :
       getPrice(y, primary, fallback)
  \/ clearCache
  \/ priceNow < MaxClockSteps * ClockStep /\ ClockAdvance

SpecOracle == Init /\ [][NextOracle]_vars

\* ------------------------------------------------------------ observations

\* The emit calls of the last step that carry orderHash h.
EmitsFor(emits, h) == SelectSeq(emits, LAMBDA e : e.payload.orderHash = h)

\* The last step issued a status query for h.
Queried(h) == last.op = "getOrderStatus" /\ h \in last.orders

\* The order was registered exactly once.
RegisteredOnce == nextTimer = 2

\* ------------------------------------------------------------------ claims

\* C1.  Registered once and polled as pending, in_auction, resolver_selected,
\* executing without fills, executing with a fill, completed (before the
\* timeout), the auction_update events carry exactly Announced, InAuction,
\* ResolverSelected, Executing, EscrowDeposited, Completed: after k answers
\* the latest event carries the k-th entry below, an answer emits one event
\* when that entry differs from the one before and none otherwise, and the
\* rest of the callback emits nothing.
ExpectedAfter ==
  << ANNOUNCED, IN_AUCTION, RESOLVER_SELECTED, EXECUTING, ESCROW_DEPOSITED,
     COMPLETED >>

Answered == Len(HappyPath) - Len(script)

C1_HappyPathEvents ==
  (nextTimer = 2 /\ ~timedOut["o1"]) =>
    /\ lastUpdate["o1"] = (IF Answered = 0 THEN ANNOUNCED
                           ELSE ExpectedAfter[Answered])
    /\ last.op = "checkAuctionStatus" =>
         Len(UpdatesIn(out, "o1")) =
           (IF Answered > 1 THEN 1 ELSE 0)
    /\ last.op = "pollCallback" => out = <<>>

\* C2.  Two consecutive auction_update events of an order never carry the
\* same state: an event emitted by a poll differs from the latest event
\* before it (so polls answered pending after the registration add none).
C2_NoDuplicateUpdate ==
  [][\A h \in Orders :
       (last'.op # "trackOrder" /\ UpdatesIn(out', h) # <<>>) =>
         UpdatesIn(out', h)[1].payload.state # lastUpdate[h]]_vars

\* C3.  With every answer pending, at most one refund_needed is emitted for
\* the order over the whole run: none is emitted once the timeout has forced
\* Expired.
C3_OneRefund ==
  [][RefundsIn(out', "o1") # <<>> => ~timedOut["o1"]]_vars

\* C4.  After the timeout forced Expired (the order registered once, not
\* again): no status query is issued for it, its state does not change and no
\* event is emitted for it.
C4_QuietAfterTimeout ==
  [][\A h \in Orders :
       (timedOut[h] /\ nextTimer' = 2) =>
         /\ ~Queried(h)'
         /\ EmitsFor(out', h) = <<>>
         /\ (Has(activeAuctions, h) /\ Has(activeAuctions', h)) =>
              activeAuctions'[h].state = activeAuctions[h].state]_vars

\* The step was the rest of a poll callback of h, run while h was registered
\* with more than its timeout elapsed since startTime.
TimeoutCheckOf(h) ==
  /\ last'.op = "pollCallback"
  /\ last'.orders = {h}
  /\ Has(activeAuctions, h)
  /\ TimeoutReached(activeAuctions[h])

\* The step forced h to Expired and emitted Expired and refund_needed.
ForcedExpired(h) ==
  /\ Has(activeAuctions', h)
  /\ activeAuctions'[h].state = EXPIRED
  /\ out' = emitAuctionEvent(h, EXPIRED, <<>>) \o << RefundNeeded(h) >>

\* C5 as stated.  At any poll of a tracked order with the timeout elapsed, the
\* tracker forces Expired and emits Expired and refund_needed, whatever the
\* poll returned, a terminal status included.
C5_TimeoutAlwaysForces ==
  [][\A h \in Orders : TimeoutCheckOf(h) => ForcedExpired(h)]_vars

\* C5 as amended.  At any poll of a tracked order with the timeout elapsed:
\* when the order's state is not terminal at the timeout check, the tracker
\* forces Expired and emits Expired and refund_needed; when it is terminal,
\* the callback removes the order and emits nothing.
C5_TimeoutForcesNonTerminal ==
  [][\A h \in Orders :
       TimeoutCheckOf(h) =>
         IF activeAuctions[h].state \in TerminalStates
         THEN ~Has(activeAuctions', h) /\ out' = <<>>
         ELSE ForcedExpired(h)]_vars

\* A poll callback has just forced Expired and emitted refund_needed.
C5_Witness ==
  /\ last.op = "pollCallback"
  /\ timedOut["o1"]
  /\ RefundsIn(out, "o1") # <<>>
  /\ getAuctionState("o1") = EXPIRED

\* C6.  After stopTracking(h), and until h is registered again, h is absent
\* from getActiveAuctions() and no step emits an event for h.
C6_StoppedIsSilent ==
  \A h \in Orders :
    stopped[h] =>
      /\ h \notin DOMAIN getActiveAuctions
      /\ EmitsFor(out, h) = <<>>

\* A status query that was in flight when stopTracking was called has been
\* answered after the stop.
C6_Witness ==
  /\ stopped["o1"]
  /\ last.op = "checkAuctionStatus"
  /\ last.orders = {"o1"}

\* C7.  After stopTracking(h), and until h is registered again, no poll
\* callback starts and no status query is issued for h.
C7_NoQueryAfterStop == \A h \in Orders : stopped[h] => ~Queried(h)

\* C8.  stopAll leaves the registry empty and every poll timer that trackOrder
\* started cancelled, and a stopAll that directly follows a stopAll changes
\* nothing.
C8_StopAllIdempotent ==
  [][last'.op = "stopAll" =>
       /\ activeAuctions' = EmptyRegistry
       /\ liveTimers' = {}
       /\ last.op = "stopAll" =>
            UNCHANGED << now, activeAuctions, nextTimer, timerOrder,
                         liveTimers, awaiting, resumed >>]_vars

\* C8 for the timers the registry records: stopAll leaves the registry empty
\* and every timer recorded in an entry cancelled, and a stopAll that directly
\* follows a stopAll changes nothing.
C8_RecordedTimersStopped ==
  [][last'.op = "stopAll" =>
       /\ activeAuctions' = EmptyRegistry
       /\ RecordedTimers(activeAuctions, Orders) \cap liveTimers' = {}
       /\ last.op = "stopAll" =>
            UNCHANGED << now, activeAuctions, nextTimer, timerOrder,
                         liveTimers, awaiting, resumed >>]_vars

\* C9.  Once a poll callback has found the order terminal, cancelled its timer
\* and removed the order, no later status query is issued for that order
\* (until it is registered again).
C9_NoQueryAfterTerminal == \A h \in Orders : terminalDone[h] => ~Queried(h)

\* C10.  Once an event carrying Completed, Failed or Expired has been emitted
\* for an order (and it is not registered again), every later event for it
\* carries that state and its state is not set to a non-terminal value.
C10_TerminalIsFinal ==
  [][\A h \in Orders :
       (lastUpdate[h] \in TerminalStates /\ last'.op # "trackOrder") =>
         /\ \A i \in 1 .. Len(UpdatesIn(out', h)) :
              UpdatesIn(out', h)[i].payload.state = lastUpdate[h]
         /\ Has(activeAuctions', h) =>
              activeAuctions'[h].state \in TerminalStates]_vars

\* The last step was the failure of a status query of h.
QueryFailed(h) ==
  /\ last.op = "checkAuctionStatus"
  /\ ~last.ok
  /\ last.orders = {h}

\* C11.  A status query that fails leaves the registry (state, resolver,
\* startTime, membership) unchanged, emits nothing and cancels no timer; the
\* rest of that poll callback still evaluates the timeout check: with the
\* timeout elapsed it forces Expired, otherwise it leaves the order and its
\* timer as they were, so that the next tick polls again.
C11_FailedQueryHarmless ==
  [][\A h \in Orders :
       /\ QueryFailed(h)' =>
            /\ activeAuctions' = activeAuctions
            /\ out' = <<>>
            /\ liveTimers' = liveTimers
       /\ ( /\ QueryFailed(h)
            /\ last'.op = "pollCallback"
            /\ last'.orders = {h}
            /\ Has(activeAuctions, h)
            /\ activeAuctions[h].state \notin TerminalStates ) =>
            IF TimeoutReached(activeAuctions[h])
            THEN ForcedExpired(h)
            ELSE /\ activeAuctions' = activeAuctions
                 /\ out' = <<>>
                 /\ liveTimers' = liveTimers]_vars

\* A status query of a tracked order has just failed with the timeout elapsed.
C11_Witness ==
  /\ QueryFailed("o1")
  /\ Has(activeAuctions, "o1")
  /\ activeAuctions["o1"].state \notin TerminalStates
  /\ TimeoutReached(activeAuctions["o1"])

C13_ResolverWriteOnce ==
  [][\A h \in Orders :
       (Has(activeAuctions, h) /\ Has(activeAuctions', h)
          /\ last'.op # "trackOrder") =>
         IF activeAuctions[h].resolver = <<>>
         THEN activeAuctions'[h].resolver # <<>> =>
                /\ last'.op = "checkAuctionStatus"
                /\ activeAuctions'[h].state = RESOLVER_SELECTED
         ELSE activeAuctions'[h].resolver = activeAuctions[h].resolver]_vars

\* The emit calls of a step, refund_needed aside, come in pairs: one on
\* auction_update, then one on the topic named by the event's state, with the
\* same payload.
PairedEmits(emits) ==
  LET ev == SelectSeq(emits, LAMBDA e : e.topic # "refund_needed")
  IN  /\ Len(ev) % 2 = 0
      /\ \A i \in 1 .. (Len(ev) \div 2) :
            /\ ev[2 * i - 1].topic = "auction_update"
            /\ ev[2 * i].topic = ev[2 * i - 1].payload.state
            /\ ev[2 * i].payload = ev[2 * i - 1].payload

\* The step registered h or changed the state of its registry entry.
StateChanged(h) ==
  /\ Has(activeAuctions', h)
  /\ ~Has(activeAuctions, h) \/ activeAuctions'[h].state # activeAuctions[h].state

\* C14.  Every auction state change (by a poll, by registration, by the
\* timeout) publishes the same event on auction_update and on the topic of
\* the event's state, and no step publishes on only one of the two.
C14_TwoTopics ==
  [][/\ PairedEmits(out')
     /\ \A h \in Orders :
          StateChanged(h) =>
            \E i \in 1 .. Len(out') :
              /\ out'[i].topic = "auction_update"
              /\ out'[i].payload.orderHash = h]_vars

\* The timeout has just forced Expired: the event on both topics, then
\* refund_needed.
C14_Witness ==
  /\ last.op = "pollCallback"
  /\ Len(out) = 3
  /\ out[1].topic = "auction_update"
  /\ out[2].topic = EXPIRED

\* C15.  Whatever listeners throw during an emit, every listener subscribed
\* to the topic is invoked for that event and emit returns to the publisher
\* without raising.
C15_ThrowingListenerIsolated ==
  lastEmit.topic # "none" =>
    /\ Range(lastEmit.invoked) = Range(ListenersOf(lastEmit.topic))
    /\ lastEmit.result # "raised"

\* An emit whose first listener threw, with other listeners after it.
C15_Witness ==
  /\ lastEmit.topic # "none"
  /\ Len(ListenersOf(lastEmit.topic)) >= 2
  /\ ListenersOf(lastEmit.topic)[1] \in lastEmit.throwing

\* C16.  An emit invokes exactly the listeners currently subscribed to the
\* topic, each once, in the order of the on() calls that subscribed them (a
\* second on() of a subscribed listener changes nothing; an on() after an
\* off() subscribes it anew).
C16_SubscriptionOrder ==
  lastEmit.topic # "none" =>
    LET at == subscribedAt[lastEmit.topic]
        invoked == lastEmit.invoked
    IN  /\ Range(invoked) = { l \in Listeners : at[l] > 0 }
        /\ \A i, j \in 1 .. Len(invoked) : i < j => at[invoked[i]] < at[invoked[j]]

\* An emit on topic a that invoked g before f, f having been subscribed by
\* the third on() call and g by the second.
C16_Witness ==
  /\ lastEmit.topic = "a"
  /\ lastEmit.invoked = << "g", "f" >>
  /\ subscribedAt["a"]["g"] = 2
  /\ subscribedAt["a"]["f"] = 3

\* C17.  A getSignedVAA call that ends with the error has made exactly 30
\* rounds and 30 requests to each endpoint, 30 times the number of endpoints
\* in all, and makes no request afterwards; while it runs, each endpoint has
\* been asked once per round, in list order.
C17_ExhaustsAllRounds ==
  LET n == Len(GUARDIAN_RPC_HOSTS)
  IN  /\ vaaCall = "thrown" =>
           /\ attempt = 30
           /\ requests = 30 * n
           /\ \A i \in 1 .. n : sent[i] = 30
      /\ vaaCall = "running" =>
           /\ attempt < 30
           /\ \A i \in 1 .. n :
                sent[i] = attempt + (IF i < hostIndex THEN 1 ELSE 0)

\* A call has ended with the error after its last round.
C17_Witness ==
  /\ vaaCall = "thrown"
  /\ lastOutcome.kind = "non_success"
  /\ delays = 30

\* C18.  A getSignedVAA call returns at the first successful response: in
\* round r from the k-th endpoint it has made (r - 1) * n + k requests, one
\* to each endpoint in each earlier round and one to each of the first k
\* endpoints in round r, and r - 1 delays; it returns the bytes of that
\* response's payload, and no request follows a successful response.
C18_FirstSuccessWins ==
  [][LET n == Len(GUARDIAN_RPC_HOSTS)
     IN  /\ vaaCall' = "returned" =>
              /\ lastOutcome'.kind = "payload"
              /\ vaaValue' = Base64Bytes(lastOutcome'.vaaBytes)
              /\ requests' = attempt' * n + hostIndex'
              /\ delays' = attempt'
              /\ \A i \in 1 .. n :
                   sent'[i] = attempt' + (IF i <= hostIndex' THEN 1 ELSE 0)
         /\ lastOutcome.kind = "payload" =>
              requests' = requests \/ requests' = 0]_vars

\* Every endpoint failed in two rounds and the third endpoint succeeded in
\* round 3.
C18_Witness ==
  /\ vaaCall = "returned"
  /\ attempt = 2
  /\ hostIndex = 3
  /\ requests = 13

\* C19.  A fetch that ends in any way other than an ok response with a
\* payload (fetch rejects, status not ok, body does not parse, no vaaBytes)
\* neither ends the call with an error nor returns a result: the call goes on
\* to the next endpoint, or to the delay after the last endpoint.
C19_EndpointErrorsSwallowed ==
  [][(requests' = requests + 1 /\ lastOutcome'.kind # "payload") =>
       /\ vaaValue' = << >>
       /\ IF hostIndex < Len(GUARDIAN_RPC_HOSTS)
          THEN vaaCall' = "running" /\ hostIndex' = hostIndex + 1
          ELSE vaaCall' = "delaying"]_vars

\* An ok response without vaaBytes has been passed over in the middle of a
\* round.
C19_Witness ==
  /\ lastOutcome.kind = "no_payload"
  /\ vaaCall = "running"
  /\ hostIndex = 3

\* The last transferTokens call met a receipt without the
\* LogMessagePublished log.
LockLacksLog ==
  /\ lastTransfer.outcome = "thrown"
  /\ lastTransfer.reason = "LogMessagePublished event not found"

\* C20.  After a lock whose receipt lacks the LogMessagePublished log, the
\* transfer is registered under a key of its source chain and
\* getTransferStatus reports it as failed.
C20_MissingLogRecordedFailed ==
  LockLacksLog =>
    \E key \in DOMAIN activeTransfers :
      /\ key[1] = lastTransfer.sourceChainId
      /\ "failed" \in StatusesOf(key)

\* C21.  Once a bridgeTokens call has ended, with the completion confirmed
\* or with a failure of the attestation fetch or of the completion, the key
\* of its transfer is no longer in activeTransfers.
C21_EndedTransferRemoved ==
  ((BridgeCompleted \/ BridgeFailed) /\ bridge.key # << >>) =>
    ~Has(activeTransfers, bridge.key)

\* C22.  A status query of a registered transfer whose guardian fetch
\* exhausted all rounds reports failure.
C22_ExhaustedFetchReportsFailed ==
  (vaaCall = "thrown" /\ caller # "direct" /\ caller # "bridgeTokens") =>
    lastStatus.status = "failed"

\* C23.  The steps of a bridgeTokens call are a prefix of lock, fetch,
\* complete: the fetch starts only for a lock that confirmed with a
\* sequence, under the key of that sequence; the completion is submitted
\* only after getSignedVAA returned, with the bytes it returned; and after a
\* failed lock or a failed fetch no later step is made.
C23_StepsInOrder ==
  /\ \E n \in 0 .. 3 : bridge.steps = SubSeq(<< "lock", "fetch", "complete" >>, 1, n)
  /\ "fetch" \in Range(bridge.steps) =>
       /\ lastTransfer.outcome = "returned"
       /\ bridge.key =
            TransferKey(lastTransfer.sourceChainId, lastTransfer.sequence)
  /\ "complete" \in Range(bridge.steps) =>
       /\ vaaCall = "returned"
       /\ caller = "bridgeTokens"
       /\ bridge.submitted = vaaValue
       /\ vaaValue # << >>
  /\ (bridge.phase # "none" /\ lastTransfer.outcome = "thrown") =>
       Len(bridge.steps) <= 1
  /\ (caller = "bridgeTokens" /\ vaaCall = "thrown") =>
       "complete" \notin Range(bridge.steps)

\* A bridgeTokens call has gone through its three steps, the attestation
\* found in the second round.
C23_Witness ==
  /\ BridgeCompleted
  /\ bridge.steps = << "lock", "fetch", "complete" >>
  /\ attempt = 1
  /\ bridge.submitted = << 1 >>

\* C24.  Decoding the encoding of a well-formed attestation gives the
\* attestation back.
C24_RoundTrip ==
  produced.done =>
    \A a \in Attestations :
      args.vaaBytes = encode(a) =>
        ~produced.thrown /\ SameAttestation(produced.vaa, a)

\* C25.  parseVAA returns no record for a buffer shorter than 57 + 66 n
\* bytes, n the signature count its sixth byte declares.
C25_ShortBufferRejected ==
  (produced.done /\
   Len(args.vaaBytes) < MinimumLength(DeclaredCount(args.vaaBytes))) =>
    produced.thrown

\* C26.  In a record parseVAA returns for a buffer that holds all the fixed
\* fields, guardianSetIndex, timestamp and nonce are the unsigned 32-bit
\* big-endian values of their four bytes and emitterChain the unsigned
\* 16-bit big-endian value of its two bytes; none is negative.
C26_UnsignedBigEndian ==
  (produced.done /\
   Len(args.vaaBytes) >= MinimumLength(DeclaredCount(args.vaaBytes))) =>
    LET index == 6 + 66 * DeclaredCount(args.vaaBytes)
        Field(from, width) ==
          StripZeros(SubSeq(args.vaaBytes, from + 1, from + width))
    IN  /\ ~produced.thrown
        /\ SameNumber(produced.vaa.guardianSetIndex, Field(1, 4))
        /\ SameNumber(produced.vaa.timestamp, Field(index, 4))
        /\ SameNumber(produced.vaa.nonce, Field(index + 4, 4))
        /\ SameNumber(produced.vaa.emitterChain, Field(index + 8, 2))

\* C27.  Whatever the state of the entry, the state checkAuctionStatus
\* leaves is the one of the table: pending gives Announced, in_auction
\* InAuction, resolver_selected ResolverSelected, executing EscrowDeposited
\* with at least one fill record and Executing with none, completed
\* Completed, failed Failed, expired Expired.
C27_MappingIsTable ==
  produced.done =>
    LET external == args.status.status
        state == produced.auction.state
    IN  /\ external = "pending" => state = "announced"
        /\ external = "in_auction" => state = "in_auction"
        /\ external = "resolver_selected" => state = "resolver_selected"
        /\ (external = "executing" /\ args.status.fills >= 1) =>
             state = "escrow_deposited"
        /\ (external = "executing" /\ args.status.fills = 0) =>
             state = "executing"
        /\ external = "completed" => state = "completed"
        /\ external = "failed" => state = "failed"
        /\ external = "expired" => state = "expired"

\* An executing answer with two fill records met an entry that was already
\* Completed and made it EscrowDeposited.
C27_Witness ==
  /\ produced.done
  /\ args.status.status = "executing"
  /\ args.status.fills = 2
  /\ args.auction.state = COMPLETED
  /\ produced.auction.state = ESCROW_DEPOSITED

\* C28.  An answer whose status is none of the seven known ones leaves the
\* state and the resolver of the entry as they were and emits nothing.
C28_UnrecognizedIgnored ==
  (produced.done /\
   args.status.status \notin
     { "pending", "in_auction", "resolver_selected", "executing",
       "completed", "failed", "expired" }) =>
    /\ produced.auction.state = args.auction.state
    /\ produced.auction.resolver = args.auction.resolver
    /\ produced.emits = << >>

\* An unrecognized answer that names a resolver and has fill records met an
\* entry in InAuction without a resolver.
C28_Witness ==
  /\ produced.done
  /\ args.status.status = "cancelled"
  /\ args.status.resolver # << >>
  /\ args.status.fills = 1
  /\ args.auction.state = IN_AUCTION
  /\ args.auction.resolver = << >>
  /\ produced.auction = args.auction

\* The step was a registration of h.
Registers(h) == last'.op = "trackOrder" /\ h \in last'.orders

\* No step but a registration changes the startTime or the timeout of an
\* entry, and a registration sets them to the time of the call and to the
\* duration it was given.
ClockNeverRefreshed(h) ==
  /\ (~Registers(h) /\ Has(activeAuctions, h) /\ Has(activeAuctions', h)) =>
       /\ activeAuctions'[h].startTime = activeAuctions[h].startTime
       /\ activeAuctions'[h].timeoutMs = activeAuctions[h].timeoutMs
  /\ Registers(h) =>
       /\ activeAuctions'[h].startTime = now
       /\ \E k \in TimeoutTwelfths :
            activeAuctions'[h].timeoutMs = TimeoutMs(k)
  /\ ForcedExpired(h) => TimeoutCheckOf(h)

\* C29 as stated.  The startTime and the timeout of an entry are those of
\* its registration whatever the polls do, and the timeout fires at every
\* poll callback that runs with more than the timeout elapsed, so at the
\* first one.
C29_TimeoutFiresAtFirstPollPast ==
  [][\A h \in Orders :
       /\ ClockNeverRefreshed(h)
       /\ TimeoutCheckOf(h) => ForcedExpired(h)]_vars

\* C29 as amended.  The startTime and the timeout of an entry are those of
\* its registration whatever the polls do; the timeout fires only at a poll
\* callback that runs with more than the timeout elapsed since then, and at
\* every such callback that finds the order in a state that is not
\* terminal.
C29_ClockFixedAtRegistration ==
  [][\A h \in Orders :
       /\ ClockNeverRefreshed(h)
       /\ (TimeoutCheckOf(h) /\ activeAuctions[h].state \notin TerminalStates)
            => ForcedExpired(h)]_vars

\* Registered at time 0 and polled at 5000 and at 10000 with a state
\* change, the order timed out at the second poll, the first past the
\* timeout of 5000.
C29_Witness ==
  /\ last.op = "pollCallback"
  /\ timedOut["o1"]
  /\ Has(activeAuctions, "o1")
  /\ activeAuctions["o1"].startTime = 0
  /\ now > PollIntervalMs
  /\ activeAuctions["o1"].state = EXPIRED
  /\ activeAuctions["o1"].resolver # << >>

\* C30.  A registration emits Announced for the order on auction_update and
\* on the announced topic, in the call itself and without issuing a query;
\* from the first registration of an order to its first status query that
\* is the only event published for it, and the stored state is Pending.
C30_AnnouncedAtRegistration ==
  [][\A h \in Orders :
       /\ Registers(h) =>
            /\ out' = << Emit("auction_update",
                              [orderHash |-> h, state |-> "announced",
                               timestamp |-> now, data |-> << >>]),
                         Emit("announced",
                              [orderHash |-> h, state |-> "announced",
                               timestamp |-> now, data |-> << >>]) >>
            /\ awaiting' = awaiting
       /\ (RegisteredOnce' /\ Has(activeAuctions', h)
           /\ now' = activeAuctions'[h].startTime) =>
            /\ lastUpdate'[h] = ANNOUNCED
            /\ activeAuctions'[h].state = PENDING
            /\ \A t \in TimerIds : awaiting'[t] = 0 /\ resumed'[t] = 0
            /\ ~Registers(h) => EmitsFor(out', h) = << >>]_vars

\* The order has just been registered for the first time: Announced is the
\* last update published, the stored state is Pending, no query is out.
C30_Witness ==
  /\ last.op = "trackOrder"
  /\ RegisteredOnce
  /\ Len(out) = 2
  /\ lastUpdate["o1"] = ANNOUNCED
  /\ getAuctionState("o1") = PENDING
  /\ \A t \in TimerIds : awaiting[t] = 0

\* C31.  While an order is in the registry, getAuctionState returns the
\* state of the last auction_update event emitted for it.
C31_StateIsLastUpdate ==
  \A h \in Orders :
    Has(activeAuctions, h) => getAuctionState(h) = lastUpdate[h]

\* C32.  Between poll callbacks no order of the registry is Completed,
\* Failed or Expired.
C32_RegistryHoldsNoTerminal ==
  (\A t \in TimerIds : resumed[t] = 0) =>
    \A h \in DOMAIN getActiveAuctions :
      getActiveAuctions[h] \notin { COMPLETED, FAILED, EXPIRED }

\* C33.  Every live timer is the one recorded in the registry entry of its
\* order, so no order has two live timers.
C33_OneRecordedTimer ==
  \A t \in liveTimers :
    /\ Has(activeAuctions, timerOrder[t])
    /\ activeAuctions[timerOrder[t]].pollInterval = t

\* The states no statement of the tracker assigns or emits.
NeverAssigned == { "secret_revealing", "refunding", "refunded" }

\* C34.  No entry of the registry and no emitted event carries
\* SecretRevealing, Refunding or Refunded, and an entry is Pending only from
\* its registration until the first step that emits a state change for it.
C34_UnreachableStates ==
  [][\A h \in Orders :
       /\ Has(activeAuctions', h) =>
            activeAuctions'[h].state \notin NeverAssigned
       /\ \A i \in 1 .. Len(out') :
            "state" \in DOMAIN out'[i].payload =>
              out'[i].payload.state \notin NeverAssigned
       /\ (Has(activeAuctions', h) /\ activeAuctions'[h].state = PENDING) =>
            \/ Registers(h)
            \/ /\ Has(activeAuctions, h)
               /\ activeAuctions[h].state = PENDING
               /\ EmitsFor(out', h) = << >>]_vars

\* An order registered as Pending was polled twice and then forced to
\* Expired by the timeout, the last state it can reach.
C34_Witness ==
  /\ last.op = "pollCallback"
  /\ timedOut["o1"]
  /\ Has(activeAuctions, "o1")
  /\ activeAuctions["o1"].state = EXPIRED
  /\ activeAuctions["o1"].resolver = << >>
  /\ now = 2 * PollIntervalMs

\* C35.  The listener of a once() call is invoked at most once, whatever
\* the emits on its topic and whether or not it throws.
C35_OnceAtMostOnce ==
  \A w \in DOMAIN onceWrappers : onceWrappers[w].calls <= 1

\* C36.  A transfer asked for a target chain that is not supported fails as
\* unsupported before any transaction: no lock is submitted and nothing is
\* registered for it.
C36_UnsupportedTargetSubmitsNothing ==
  (bridge.phase # "none" /\ bridge.targetChainId \notin SupportedChains) =>
    /\ lastTransfer.outcome = "thrown"
    /\ lastTransfer.reason = "Token bridge not supported"
    /\ "lock" \notin Range(bridge.steps)
    /\ ~Has(activeTransfers, bridge.key)

\* C37.  Unless the platform reports hardware, enrolment and a successful
\* prompt in the call, retrievePrivateKeyWithBiometric returns null and
\* storePrivateKeyWithBiometric returns false and leaves the stored item as
\* it was.
C37_KeyOnlyAfterAuthentication ==
  (produced.done /\
   ~(/\ args.hasHardwareAsync = "true"
     /\ args.isEnrolledAsync = "true"
     /\ args.authenticateAsync = "success")) =>
    /\ produced.stored = args.stored
    /\ produced.op = "retrieve" => produced.returned = "null"
    /\ produced.op = "store" => produced.returned = "false"

\* With a key stored and the storage answering, the user cancelled the
\* prompt of a retrieval and no key came back.
C37_Witness ==
  /\ produced.done
  /\ produced.op = "retrieve"
  /\ args.authenticateAsync = "cancelled"
  /\ args.hasHardwareAsync = "true"
  /\ args.isEnrolledAsync = "true"
  /\ args.getItem = "ok"
  /\ args.stored = "k1"
  /\ produced.returned = "null"

\* C38.  A getPrice for a key whose last non-zero price was brought by a
\* request less than 60 seconds ago, with no clearCache since, makes no
\* request and returns that price, whichever source had brought it; without
\* such a price a request is made.
C38_CachedForSixtySeconds ==
  [][\A y \in Symbols :
       lastPrice'.symbol = y =>
         LET before == fetched[toUpperCase(y)]
         IN  IF before.source # "none" /\ priceNow - before.at < 60000
             THEN lastPrice'.requests = 0 /\ lastPrice'.usd = before.usd
             ELSE lastPrice'.requests >= 1]_vars

====
